---- MODULE Spec2Model ----
(***************************************************************************)
(* Submission-progress tracking of PyAstroSALT.                            *)
(*                                                                         *)
(* Streaming mode: the asynchronous generator                              *)
(* pyastrosalt.proposal.submission_progress together with the websocket    *)
(* reader _submission_progress_server_input and a progress server as its   *)
(* environment.                                                            *)
(***************************************************************************)
EXTENDS Integers, Sequences, FiniteSets, TLC

(***************************************************************************)
(* Bounds of the model.                                                    *)
(***************************************************************************)
\* largest max_retries argument explored (the smallest is -1)
MaxRetriesArg == 1
\* number of log entries the server has to deliver
MaxEntries == 2
\* number of messages the server sends over all connections
MaxMessages == 2
\* largest number of log entries in one message
MaxBatch == 2
\* the clock stops at this time
MaxTime == 21
\* the reader stops polling after this number of progress requests
MaxCalls == 3
\* largest max_retries of the reconnection controller explored
MaxPollRetries == 1
MaxWaiting == 1
MaxFiles == 2

\* the length of the submitted file, in bytes
FileLength == 2

(***************************************************************************)
(* Program constants.                                                      *)
(***************************************************************************)
TIME_BETWEEN_RECONNECTION_ATTEMPTS == 10

(***************************************************************************)
(* Enumerations and conversions.                                           *)
(***************************************************************************)
\* class SubmissionStatus(str, Enum): the member for a raw value
SubmissionStatusValues == {"Failed", "In progress", "Successful"}

IsSubmissionStatus(s) == s \in SubmissionStatusValues

SubmissionStatus(s) ==
    CASE s = "Failed" -> "SubmissionStatus.FAILED"
      [] s = "In progress" -> "SubmissionStatus.IN_PROGRESS"
      [] s = "Successful" -> "SubmissionStatus.SUCCESSFUL"
      [] OTHER -> "ValueError"

\* class SubmissionLogMessageType(str, Enum)
SubmissionLogMessageTypeValues == {"Error", "Info", "Warning"}

IsSubmissionLogMessageType(s) == s \in SubmissionLogMessageTypeValues

SubmissionLogMessageType(s) ==
    CASE s = "Error" -> "SubmissionLogMessageType.ERROR"
      [] s = "Info" -> "SubmissionLogMessageType.INFO"
      [] s = "Warning" -> "SubmissionLogMessageType.WARNING"
      [] OTHER -> "ValueError"

\* datetime.fromisoformat on the timestamps the server uses; any other string
\* of the model is not an ISO 8601 timestamp: fromisoformat raises ValueError
\* for it, which IsIsoFormat tells (the conversion is then never applied)
Datetime(y, mo, d, h, mi, s, off) ==
    [year |-> y, month |-> mo, day |-> d, hour |-> h, minute |-> mi,
     second |-> s, utcoffset |-> off]

IsoStrings ==
    {"2022-05-04T16:08:16+00:00", "2022-05-04T16:08:18+00:00",
     "2022-05-04T16:08:22+00:00", "2022-05-04T16:08:25+00:00",
     "2022-05-04T16:08:30+00:00"}

IsIsoFormat(s) == s \in IsoStrings

fromisoformat(s) ==
    CASE s = "2022-05-04T16:08:16+00:00" -> Datetime(2022, 5, 4, 16, 8, 16, 0)
      [] s = "2022-05-04T16:08:18+00:00" -> Datetime(2022, 5, 4, 16, 8, 18, 0)
      [] s = "2022-05-04T16:08:22+00:00" -> Datetime(2022, 5, 4, 16, 8, 22, 0)
      [] s = "2022-05-04T16:08:25+00:00" -> Datetime(2022, 5, 4, 16, 8, 25, 0)
      [] s = "2022-05-04T16:08:30+00:00" -> Datetime(2022, 5, 4, 16, 8, 30, 0)
      [] OTHER -> Datetime(0, 0, 0, 0, 0, 0, 0)

(***************************************************************************)
(* The messages of the progress server.                                    *)
(***************************************************************************)
\* marks a key that is missing from a message
Absent == "<absent>"

Dates ==
    <<"2022-05-04T16:08:16+00:00", "2022-05-04T16:08:18+00:00",
      "2022-05-04T16:08:22+00:00", "2022-05-04T16:08:25+00:00",
      "2022-05-04T16:08:30+00:00">>

Types == <<"Info", "Warning", "Info", "Info", "Error">>

Texts == <<"Message 1", "Message 2", "Message 3", "Message 3", "Message 5">>

\* the n-th entry of the server's submission log; entry `bad` (if any) has a
\* message type the client does not know, entry `-bad` (if any) a timestamp
\* that is not in ISO 8601 format
RawEntry(n, bad) ==
    [entry_number |-> n,
     logged_at |-> IF n = -bad THEN "04/05/2022 16:08"
                   ELSE Dates[((n - 1) % 5) + 1],
     message_type |-> IF n = bad THEN "Fatal" ELSE Types[((n - 1) % 5) + 1],
     message |-> Texts[((n - 1) % 5) + 1]]

\* the entries first .. first + k - 1 of the server's log
RawEntries(first, k, bad) == [i \in 1..k |-> RawEntry(first + i - 1, bad)]

RawStatuses == {"In progress", "Failed", "Successful", "Unknown"}

RawMessage(st, first, k, bad) ==
    [status |-> st,
     log_entries |-> RawEntries(first, k, bad),
     proposal_code |-> IF st = "Successful" THEN "2022-1-SCI-042" ELSE Absent]

(***************************************************************************)
(* The body of the `async for` loop of submission_progress up to the       *)
(* yield: the conversion of a message.                                     *)
(***************************************************************************)
\* no conversion of the message raises
ConvertsWithoutError(p) ==
    /\ IsSubmissionStatus(p.status)
    /\ \A i \in 1..Len(p.log_entries) :
          /\ IsIsoFormat(p.log_entries[i].logged_at)
          /\ IsSubmissionLogMessageType(p.log_entries[i].message_type)

ConvertLogEntry(e) ==
    [entry_number |-> e.entry_number,
     logged_at |-> fromisoformat(e.logged_at),
     message_type |-> SubmissionLogMessageType(e.message_type),
     message |-> e.message]

ConvertMessage(p) ==
    [status |-> SubmissionStatus(p.status),
     log_entries |-> [i \in 1..Len(p.log_entries) |-> ConvertLogEntry(p.log_entries[i])],
     proposal_code |-> p.proposal_code]

(***************************************************************************)
(* State.                                                                  *)
(***************************************************************************)
VARIABLES
    max_retries,            \* argument of submission_progress
    pc,                     \* position of the generator
    num_retries,            \* local variable of submission_progress
    received_log_entries,   \* local variable of submission_progress
    reqFrom,                \* from_entry_number of the latest connection (0: none yet)
    srvBad,                 \* number of the server's unparsable log entry (0: none;
                            \* negative: the timestamp is the unparsable field)
    srvNext,                \* next entry number the server sends on the connection
    srvHonest,              \* the server has honoured from_entry_number so far
    received,               \* raw messages received, in arrival order
    yielded,                \* items yielded to the consumer, in order
    runFails,               \* failed attempts since the last yield
    prevRunFails,           \* failed attempts that preceded the last yield
    exc,                    \* the exception being handled or propagated (NoExc: none)
    now,                    \* the clock, in seconds
    ppc,                    \* position of the reader of the Submission
    status,                 \* Submission: cached status
    log,                    \* Submission: accumulated log entries
    next_expected_entry_number, \* Submission: the cursor
    last_refreshed_at,      \* Submission: time of the last refresh (Unset: none)
    proposal_code,          \* Submission: proposal code (None: unset)
    consecutive_failures,   \* Submission: failures since the last reset
    poll_max_retries,       \* max_retries of the reconnection controller
    netCalls,               \* progress requests issued so far
    callsAtRefresh,         \* netCalls when the last refresh completed
    pollFrom,               \* from_entry_number of the latest progress request
    readSince,              \* properties read since the latest poll began
    inFlight,               \* progress requests under way
    waiting,                \* readers waiting for the refresh under way to end
    spc,                    \* position of the call of submit
    file,                   \* submit: the submitted file
    submit_proposal_code,   \* submit: the proposal_code argument
    raised,                 \* submit: the exception raised (NoExc: none)
    posted,                 \* submit: the data of the POST request (None: no request)
    numPosts,               \* submit: HTTP requests made
    identifier,             \* submit: the identifier in the server's response (None: none)
    handle,                 \* submit: the object returned (NoHandle: none)
    file_kind,              \* submit: what the file argument is
    offset,                 \* submit: the read position of the file object
    uploaded,               \* submit: the files of the POST request (NoUpload: none)
    spos,                   \* Session: "idle", or "awaiting" the server's response
    base_url,               \* Session: _base_url
    authorization,          \* Session: the Authorization header (Absent: not set)
    wpos,                   \* pyastrosalt.web: "idle" once the module is in use
    BASE_URL,               \* pyastrosalt.web: _BASE_URL
    access_token,           \* SessionHandler: _access_token
    handler_authorization,  \* SessionHandler: the Authorization header of _session
    call,                   \* the latest call of the Session or of pyastrosalt.web
    outcome                 \* how the latest read ended: "none" (no read yet, or
                            \* not ended), "fresh" (step 1), "terminal" (step 2),
                            \* "polled" (step 3) or "raised"

streamVars ==
    <<max_retries, pc, num_retries, received_log_entries, reqFrom, srvBad,
      srvNext, srvHonest, received, yielded, runFails, prevRunFails, exc>>

pollVars ==
    <<now, ppc, status, log, next_expected_entry_number, last_refreshed_at,
      proposal_code, consecutive_failures, poll_max_retries, netCalls,
      callsAtRefresh, pollFrom, readSince, inFlight, waiting, outcome>>

submitVars ==
    <<spc, file, submit_proposal_code, raised, posted, numPosts, identifier,
      handle, file_kind, offset, uploaded>>

sessionVars == <<spos, base_url, authorization>>

webVars == <<wpos, BASE_URL, access_token, handler_authorization>>

transportVars == <<sessionVars, webVars, call>>

vars == <<streamVars, pollVars, submitVars, transportVars>>

srvVars == <<srvBad, srvNext, srvHonest>>

Last(s) == s[Len(s)]

(***************************************************************************)
(* submission_progress.                                                    *)
(***************************************************************************)
\* variant: the first attempt is made whatever max_retries is
LoopConditionAfterFirstAttempt(n, m) == n = 0 \/ n <= m

\* the loop condition of submission_progress
LoopCondition(n, m) == n <= m

\* variant: the exception is passed on one retry later
PassOnLater(n, m) == n > m + 1

\* variant: the exception is passed on one retry earlier
PassOnEarlier(n, m) == n >= m

\* the test of the exception handler that passes the exception on
PassOn(n, m) == n > m

\* variant: a message whose entries do not start at the cursor raises
ReachesYieldInSequence(p, r) ==
    /\ ConvertsWithoutError(p)
    /\ Len(p.log_entries) > 0 => p.log_entries[1].entry_number = r + 1

\* variant: a message without log entries is not yielded
ReachesYieldNonEmpty(p, r) == ConvertsWithoutError(p) /\ Len(p.log_entries) > 0

\* variant: only the status is converted before the yield
ReachesYieldStatusOnly(p, r) == IsSubmissionStatus(p.status)

\* the loop body reaches the yield for message p while received_log_entries
\* is r: the conversions are all that can raise, r is not looked at
ReachesYield(p, r) == ConvertsWithoutError(p)

\* variant: only a message with log entries resets the retry counter
AfterYieldResetNonEmpty(p, r, n) ==
    [received_log_entries |-> r + Len(p.log_entries),
     num_retries |-> IF Len(p.log_entries) > 0 THEN 0 ELSE n,
     pc |-> "recv"]

\* variant: the retries are counted over the whole run
AfterYieldKeepRetries(p, r, n) ==
    [received_log_entries |-> r + Len(p.log_entries), num_retries |-> n,
     pc |-> "recv"]

\* variant: messages are counted instead of log entries
AfterYieldCountMessages(p, r, n) ==
    [received_log_entries |-> r + 1, num_retries |-> 0, pc |-> "recv"]

\* variant: the generator stops after a message with a terminal status
AfterYieldStopTerminal(p, r, n) ==
    [received_log_entries |-> r + Len(p.log_entries), num_retries |-> 0,
     pc |-> IF p.status \in {"SubmissionStatus.FAILED", "SubmissionStatus.SUCCESSFUL"}
            THEN "done" ELSE "recv"]

\* the statements after the yield, and where the generator goes on: with the
\* next iteration of the `async for`
AfterYield(p, r, n) ==
    [received_log_entries |-> r + Len(p.log_entries), num_retries |-> 0,
     pc |-> "recv"]

NoExc == [type |-> "<none>", attempt |-> 0]

\* the exception of type t raised by the attempt that follows `failed` failed
\* attempts
Exc(t, failed) == [type |-> t, attempt |-> failed + 1]

\* raised in the task that runs the generator when the task is cancelled
CancelledError == [type |-> "CancelledError", attempt |-> 0]

\* raised at the yield when the consumer closes the generator
GeneratorExit == [type |-> "GeneratorExit", attempt |-> 0]

\* variant: a bare `except:`
CatchesBare(e) == TRUE

\* `except Exception`: CancelledError and GeneratorExit derive from
\* BaseException and pass through
Catches(e) == e.type \notin {"CancelledError", "GeneratorExit"}

\* variant: a new exception is raised in place of the one being handled
RaiseNew(handled) == [type |-> "RuntimeError", attempt |-> handled.attempt]

\* the bare `raise` of the handler: the exception being handled
Raise(handled) == handled

\* e leaves the generator
Propagate(e) ==
    /\ pc' = IF e.type = "GeneratorExit" THEN "closed"
             ELSE IF e.type = "CancelledError" THEN "cancelled"
             ELSE "raised"
    /\ exc' = e
    /\ UNCHANGED runFails

\* e is raised inside the try block
Thrown(e) ==
    IF Catches(e)
      THEN /\ pc' = "sleep"
           /\ exc' = e
           /\ runFails' = runFails + 1
      ELSE Propagate(e)

\* the generator before its first step
StreamStart ==
    /\ max_retries \in -1..MaxRetriesArg
    /\ srvBad \in {0, 2, -2}
    /\ pc = "start"
    /\ num_retries = 0
    /\ received_log_entries = 0
    /\ reqFrom = 0
    /\ srvNext = 0
    /\ srvHonest = TRUE
    /\ received = <<>>
    /\ yielded = <<>>
    /\ runFails = 0
    /\ prevRunFails = 0
    /\ exc = NoExc

\* the generator is started: the first evaluation of the loop condition
Start ==
    /\ pc = "start"
    /\ UNCHANGED <<pollVars, submitVars, transportVars>>
    /\ pc' = IF LoopCondition(num_retries, max_retries) THEN "connect" ELSE "done"
    /\ UNCHANGED <<max_retries, num_retries, received_log_entries, reqFrom,
                   srvVars, received, yielded, runFails, prevRunFails, exc>>

\* _submission_progress_server_input is entered and the websocket connects;
\* the generator goes on to send the access token
ConnectOk ==
    /\ pc = "connect"
    /\ UNCHANGED <<pollVars, submitVars, transportVars>>
    /\ reqFrom' = received_log_entries + 1
    /\ srvNext' = received_log_entries + 1
    /\ pc' = "send"
    /\ UNCHANGED <<max_retries, num_retries, received_log_entries, srvBad,
                   srvHonest, received, yielded, runFails, prevRunFails, exc>>

\* the connection (or sending the access token) raises
ConnectFail ==
    /\ pc = "connect"
    /\ UNCHANGED <<pollVars, submitVars, transportVars>>
    /\ reqFrom' = received_log_entries + 1
    /\ Thrown(Exc("OSError", runFails))
    /\ UNCHANGED <<max_retries, num_retries, received_log_entries, srvVars,
                   received, yielded, prevRunFails>>

\* the access token has been sent: the generator waits for a message
SendToken ==
    /\ pc = "send"
    /\ UNCHANGED <<pollVars, submitVars, transportVars>>
    /\ pc' = "recv"
    /\ UNCHANGED <<max_retries, num_retries, received_log_entries, reqFrom,
                   srvVars, received, yielded, runFails, prevRunFails, exc>>

\* sending the access token raises (connection lost)
SendFail ==
    /\ pc = "send"
    /\ UNCHANGED <<pollVars, submitVars, transportVars>>
    /\ Thrown(Exc("ConnectionClosedError", runFails))
    /\ UNCHANGED <<max_retries, num_retries, received_log_entries, reqFrom,
                   srvVars, received, yielded, prevRunFails>>

\* a message arrives, is converted and, unless the conversion raises, yielded
Receive(m) ==
    /\ pc = "recv"
    /\ UNCHANGED <<pollVars, submitVars, transportVars>>
    /\ Len(received) < MaxMessages
    /\ received' = Append(received, m)
    /\ IF ReachesYield(m, received_log_entries)
         THEN /\ yielded' = Append(yielded, ConvertMessage(m))
              /\ pc' = "yielded"
              /\ prevRunFails' = runFails
              /\ runFails' = 0
              /\ UNCHANGED exc
         ELSE /\ Thrown(Exc("ValueError", runFails))
              /\ UNCHANGED <<yielded, prevRunFails>>
    /\ UNCHANGED <<max_retries, num_retries, received_log_entries, reqFrom, srvBad>>

\* the server sends the next k entries of its log
RecvMessage ==
    \E st \in RawStatuses, k \in 0..MaxBatch :
        /\ srvNext + k - 1 <= MaxEntries
        /\ Receive(RawMessage(st, srvNext, k, srvBad))
        /\ srvNext' = srvNext + k
        /\ UNCHANGED srvHonest

\* the server sends entries that do not start at its cursor: it skips an entry
\* or repeats one
RecvOutOfSequence ==
    \E st \in RawStatuses, k \in 1..MaxBatch, d \in {-1, 1} :
        /\ srvHonest
        /\ srvNext + d >= 1
        /\ srvNext + d + k - 1 <= MaxEntries
        /\ Receive(RawMessage(st, srvNext + d, k, srvBad))
        /\ srvNext' = srvNext + d + k
        /\ srvHonest' = FALSE

\* the server closes the connection normally (ConnectionClosedOK)
RecvClosedOK ==
    /\ pc = "recv"
    /\ UNCHANGED <<pollVars, submitVars, transportVars>>
    /\ pc' = "done"
    /\ UNCHANGED <<max_retries, num_retries, received_log_entries, reqFrom,
                   srvVars, received, yielded, runFails, prevRunFails, exc>>

\* receiving raises (connection lost)
RecvError ==
    /\ pc = "recv"
    /\ UNCHANGED <<pollVars, submitVars, transportVars>>
    /\ Thrown(Exc("ConnectionClosedError", runFails))
    /\ UNCHANGED <<max_retries, num_retries, received_log_entries, reqFrom,
                   srvVars, received, yielded, prevRunFails>>

\* the server sends text that is not JSON: json.loads raises JSONDecodeError
RecvNotJson ==
    /\ pc = "recv"
    /\ UNCHANGED <<pollVars, submitVars, transportVars>>
    /\ Thrown(Exc("JSONDecodeError", runFails))
    /\ UNCHANGED <<max_retries, num_retries, received_log_entries, reqFrom,
                   srvVars, received, yielded, prevRunFails>>

\* the consumer asks for the next item: the statements after the yield
Resume ==
    /\ pc = "yielded"
    /\ UNCHANGED <<pollVars, submitVars, transportVars>>
    /\ received_log_entries' =
          AfterYield(Last(yielded), received_log_entries, num_retries).received_log_entries
    /\ num_retries' =
          AfterYield(Last(yielded), received_log_entries, num_retries).num_retries
    /\ pc' = AfterYield(Last(yielded), received_log_entries, num_retries).pc
    /\ UNCHANGED <<max_retries, reqFrom, srvVars, received, yielded, runFails,
                   prevRunFails, exc>>

\* the exception handler: sleep, count the retry, pass the exception on or
\* go round the loop again
Backoff ==
    /\ pc = "sleep"
    /\ UNCHANGED <<pollVars, submitVars, transportVars>>
    /\ num_retries' = num_retries + 1
    /\ pc' = IF PassOn(num_retries + 1, max_retries) THEN "raised"
             ELSE IF LoopCondition(num_retries + 1, max_retries) THEN "connect"
             ELSE "done"
    /\ exc' = IF PassOn(num_retries + 1, max_retries) THEN Raise(exc)
              ELSE NoExc
    /\ UNCHANGED <<max_retries, received_log_entries, reqFrom, srvVars,
                   received, yielded, runFails, prevRunFails>>

\* the consumer stops iterating and the generator is closed: GeneratorExit is
\* raised at the yield
Close ==
    /\ pc = "yielded"
    /\ UNCHANGED <<pollVars, submitVars, transportVars>>
    /\ Thrown(GeneratorExit)
    /\ UNCHANGED <<max_retries, num_retries, received_log_entries, reqFrom,
                   srvVars, received, yielded, prevRunFails>>

\* the task is cancelled while the generator awaits the connection, the
\* sending of the access token, a message or the end of the sleep:
\* CancelledError is raised at the await, which for the sleep is in the
\* handler and outside the try block
Cancel ==
    /\ pc \in {"connect", "send", "recv", "sleep"}
    /\ UNCHANGED <<pollVars, submitVars, transportVars>>
    /\ IF pc = "sleep" THEN Propagate(CancelledError) ELSE Thrown(CancelledError)
    /\ UNCHANGED <<max_retries, num_retries, received_log_entries, reqFrom,
                   srvVars, received, yielded, prevRunFails>>

(***************************************************************************)
(* Polling-cache mode: the Submission object with its cached, lazily       *)
(* refreshed state, the progress poller and the reconnection controller.   *)
(***************************************************************************)
Unset == -1

None == "<None>"

POLLING_INTERVAL == 10

BACKOFF_INTERVAL == 10

Properties == {"status", "log", "error", "proposal_code"}

TerminalStatuses == {"SubmissionStatus.FAILED", "SubmissionStatus.SUCCESSFUL"}

\* the SubmissionMessageType member for a raw value
SubmissionMessageType(s) ==
    CASE s = "Error" -> "SubmissionMessageType.ERROR"
      [] s = "Info" -> "SubmissionMessageType.INFO"
      [] s = "Warning" -> "SubmissionMessageType.WARNING"
      [] OTHER -> "ValueError"

\* a LogEntry from the raw fields of a log entry of a progress response
SubmissionLogEntry(e) ==
    [logged_at |-> fromisoformat(e.logged_at),
     message_type |-> SubmissionMessageType(e.message_type),
     message |-> e.message]

\* the body of a progress response decodes to a ProgressBatch
BatchParses(b) ==
    /\ IsSubmissionStatus(b.status)
    /\ \A i \in 1..Len(b.log_entries) :
          /\ IsIsoFormat(b.log_entries[i].logged_at)
          /\ b.log_entries[i].message_type \in SubmissionLogMessageTypeValues

\* the message types of the log entries of the progress endpoint's server
PollTypes == <<"Error", "Error", "Info", "Warning", "Error">>

\* the progress response with status st and the entries first .. first + k - 1
PollResponse(st, first, k) ==
    [status |-> st,
     log_entries |->
         [i \in 1..k |->
             [entry_number |-> first + i - 1,
              logged_at |-> Dates[((first + i - 2) % 5) + 1],
              message_type |-> PollTypes[((first + i - 2) % 5) + 1],
              message |-> Texts[((first + i - 2) % 5) + 1]]],
     proposal_code |-> IF st = "Successful" THEN "2024-2-SCI-055" ELSE Absent]

\* the entries of the batch continue the log at the cursor
InSequence(b, cursor) ==
    \A i \in 1..Len(b.log_entries) : b.log_entries[i].entry_number = cursor + i - 1

\* variant: the cache is still fresh at the end of the polling interval
IsFreshAtBoundary(t, last) == last # Unset /\ t - last <= POLLING_INTERVAL

\* variant: the cache goes stale a second early
IsFreshShort(t, last) == last # Unset /\ t - last < POLLING_INTERVAL - 1

\* step 1 of the refresh path: the cache is fresh
IsFresh(t, last) == last # Unset /\ t - last < POLLING_INTERVAL

\* variant: a terminal submission is polled again once the cache is stale
AnswersFromCacheFreshOnly(t, last, st) == IsFresh(t, last)

\* steps 1 and 2 of the refresh path: the read is answered from the cache
AnswersFromCache(t, last, st) == IsFresh(t, last) \/ st \in TerminalStatuses

\* the reconnection controller gives up
GivesUp(failures, maxr) == failures > maxr

\* the batch resets the consecutive-failure counter
ResetsFailures(b, st) ==
    Len(b.log_entries) > 0 \/ SubmissionStatus(b.status) # st

\* variant: the cursor counts batches
NextCursorCountBatches(cursor, b) == cursor + 1

\* the cursor after the batch is merged
NextCursor(cursor, b) == cursor + Len(b.log_entries)

\* variant: a batch is put in front of the log
MergedLogInFront(entries, b) ==
    [i \in 1..Len(b.log_entries) |-> SubmissionLogEntry(b.log_entries[i])] \o entries

\* the log after the batch is merged: its entries are appended in order
MergedLog(entries, b) ==
    entries \o [i \in 1..Len(b.log_entries) |-> SubmissionLogEntry(b.log_entries[i])]

\* variant: the proposal code of the batch is dropped
MergedCodeDropped(b) == None

\* the proposal code after the batch is merged
MergedCode(b) == IF b.proposal_code = Absent THEN None ELSE b.proposal_code

\* variant: the message of the first entry of type Error
ErrorOfFirst(st, entries) ==
    LET errs == {i \in 1..Len(entries) :
                    entries[i].message_type = "SubmissionMessageType.ERROR"}
    IN IF st = "SubmissionStatus.FAILED" /\ errs # {}
         THEN entries[CHOOSE i \in errs : \A j \in errs : i <= j].message
         ELSE None

\* the `error` property
ErrorOf(st, entries) ==
    LET errs == {i \in 1..Len(entries) :
                    entries[i].message_type = "SubmissionMessageType.ERROR"}
    IN IF st = "SubmissionStatus.FAILED" /\ errs # {}
         THEN entries[CHOOSE i \in errs : \A j \in errs : j <= i].message
         ELSE None

\* the value a property read returns from the cache
PropertyValue(prop) ==
    CASE prop = "status" -> <<status>>
      [] prop = "log" -> log
      [] prop = "error" -> <<ErrorOf(status, log)>>
      [] prop = "proposal_code" -> <<proposal_code>>

\* a Submission right after its construction
SubmissionStart ==
    /\ now = 0
    /\ ppc = "idle"
    /\ status = "SubmissionStatus.IN_PROGRESS"
    /\ log = <<>>
    /\ next_expected_entry_number = 1
    /\ last_refreshed_at = Unset
    /\ proposal_code = None
    /\ consecutive_failures = 0
    /\ netCalls = 0
    /\ callsAtRefresh = 0
    /\ pollFrom = 0
    /\ readSince = {}
    /\ inFlight = 0
    /\ waiting = 0
    /\ outcome = "none"

\* a property is read: steps 1 and 2 answer from the cache, step 3 issues a
\* progress request from the cursor
Read(prop) ==
    /\ ppc = "idle"
    /\ UNCHANGED <<streamVars, submitVars, transportVars>>
    /\ IF AnswersFromCache(now, last_refreshed_at, status)
         THEN /\ readSince' = readSince \cup {prop}
              /\ outcome' = IF IsFresh(now, last_refreshed_at) THEN "fresh"
                            ELSE "terminal"
              /\ UNCHANGED <<now, ppc, status, log, next_expected_entry_number,
                             last_refreshed_at, proposal_code,
                             consecutive_failures, poll_max_retries, netCalls,
                             callsAtRefresh, pollFrom, inFlight, waiting>>
         ELSE /\ netCalls < MaxCalls
              /\ ppc' = "fetching"
              /\ netCalls' = netCalls + 1
              /\ inFlight' = inFlight + 1
              /\ pollFrom' = next_expected_entry_number
              /\ readSince' = {prop}
              /\ outcome' = "none"
              /\ UNCHANGED <<now, status, log, next_expected_entry_number,
                             last_refreshed_at, proposal_code,
                             consecutive_failures, poll_max_retries,
                             callsAtRefresh, waiting>>

ReadProperty == \E prop \in Properties : Read(prop)

\* variant: no refresh-in-progress flag
WaitsForRefreshNever(n) == FALSE

\* the refresh-in-progress flag is set: a reader waits for the refresh under
\* way instead of starting one
WaitsForRefresh(n) == n > 0

\* a property is read while another read is refreshing the cache (the cache
\* is stale and the status not terminal, or that refresh would not have begun)
ReadWhileRefreshing ==
    /\ ppc = "fetching"
    /\ UNCHANGED <<streamVars, submitVars, transportVars>>
    /\ IF WaitsForRefresh(inFlight)
         THEN /\ waiting < MaxWaiting
              /\ waiting' = waiting + 1
              /\ UNCHANGED <<netCalls, inFlight, pollFrom>>
         ELSE /\ netCalls < MaxCalls
              /\ netCalls' = netCalls + 1
              /\ inFlight' = inFlight + 1
              /\ pollFrom' = next_expected_entry_number
              /\ UNCHANGED waiting
    /\ UNCHANGED <<now, ppc, status, log, next_expected_entry_number,
                   last_refreshed_at, proposal_code, consecutive_failures,
                   poll_max_retries, callsAtRefresh, readSince, outcome>>

\* the batch is merged into the cache and the read returns
Merge(b) ==
    /\ status' = SubmissionStatus(b.status)
    /\ log' = MergedLog(log, b)
    /\ next_expected_entry_number' = NextCursor(next_expected_entry_number, b)
    /\ proposal_code' = MergedCode(b)
    /\ last_refreshed_at' = now
    /\ consecutive_failures' =
          IF ResetsFailures(b, status) THEN 0 ELSE consecutive_failures
    /\ callsAtRefresh' = netCalls
    /\ ppc' = "idle"
    /\ outcome' = "polled"
    /\ inFlight' = inFlight - 1
    /\ waiting' = 0
    /\ UNCHANGED <<now, poll_max_retries, netCalls, pollFrom, readSince>>

\* a fetch failed: the failure is propagated, or the fetch is repeated with
\* the same from_entry_number after the backoff interval
FetchFailed ==
    /\ consecutive_failures' = consecutive_failures + 1
    /\ IF GivesUp(consecutive_failures + 1, poll_max_retries)
         THEN /\ ppc' = "idle"
              /\ outcome' = "raised"
              /\ inFlight' = inFlight - 1
              /\ waiting' = 0
              /\ UNCHANGED <<now, netCalls>>
         ELSE /\ now + BACKOFF_INTERVAL <= MaxTime
              /\ netCalls < MaxCalls
              /\ now' = now + BACKOFF_INTERVAL
              /\ netCalls' = netCalls + 1
              /\ UNCHANGED <<ppc, outcome, inFlight, waiting>>
    /\ UNCHANGED <<status, log, next_expected_entry_number, last_refreshed_at,
                   proposal_code, poll_max_retries, callsAtRefresh, pollFrom,
                   readSince>>

\* the progress request is answered with a batch
Response(b) ==
    /\ ppc = "fetching"
    /\ UNCHANGED <<streamVars, submitVars, transportVars>>
    /\ IF BatchParses(b) /\ InSequence(b, next_expected_entry_number)
         THEN Merge(b)
         ELSE FetchFailed

\* the server answers with the next k entries from from_entry_number on
FetchResponse ==
    \E st \in RawStatuses, k \in 0..MaxBatch :
        /\ pollFrom + k - 1 <= MaxEntries
        /\ Response(PollResponse(st, pollFrom, k))

\* the server answers with entries that do not start at from_entry_number
FetchOutOfSequence ==
    \E st \in RawStatuses, k \in 1..MaxBatch :
        /\ pollFrom + k <= MaxEntries
        /\ Response(PollResponse(st, pollFrom + 1, k))

\* the request fails: no connection, or an error status
FetchError ==
    /\ ppc = "fetching"
    /\ UNCHANGED <<streamVars, submitVars, transportVars>>
    /\ FetchFailed

\* time passes between reads
Tick ==
    /\ ppc = "idle"
    /\ now < MaxTime
    /\ now' = now + 1
    /\ UNCHANGED <<streamVars, submitVars, transportVars>>
    /\ UNCHANGED <<ppc, status, log, next_expected_entry_number,
                   last_refreshed_at, proposal_code, consecutive_failures,
                   poll_max_retries, netCalls, callsAtRefresh, pollFrom,
                   readSince, inFlight, waiting, outcome>>

(***************************************************************************)
(* Session: HTTP requests to the API server, and the API exceptions.       *)
(***************************************************************************)
DEFAULT_BASE_URL == "https://example.org"

\* str.startswith and str.endswith
StartsWith(s, prefix) ==
    Len(s) >= Len(prefix) /\ SubSeq(s, 1, Len(prefix)) = prefix

EndsWith(s, suffix) ==
    Len(s) >= Len(suffix) /\ SubSeq(s, Len(s) - Len(suffix) + 1, Len(s)) = suffix

\* the status codes of the responses considered
StatusCodes == {200, 204, 302, 399, 400, 401, 403, 404, 418, 500, 503}

\* the bodies of the responses considered: `json` tells what the body decodes
\* to ("<none>": the body is not JSON), and for an object `message` and
\* `error` are the values of these members (Absent: no such member)
Body(json, message, error, token) ==
    [json |-> json, message |-> message, error |-> error, token |-> token]

Bodies ==
    {Body("<none>", Absent, Absent, Absent),
     Body("null", Absent, Absent, Absent),
     Body("array", Absent, Absent, Absent),
     Body("string", Absent, Absent, Absent),
     Body("object", Absent, Absent, Absent),
     Body("object", "Something is wrong.", Absent, Absent),
     Body("object", Absent, "There is another error!", Absent),
     Body("object", "Something is wrong.", "There is another error!", Absent)}

HttpResponse(status_code, body) == [status_code |-> status_code, body |-> body]

\* the status code the constructor of an exception class insists on (0: any)
RequiredStatusCode(class) ==
    CASE class = "BadRequestError" -> 400
      [] class = "NotAuthenticatedError" -> 401
      [] class = "ForbiddenError" -> 403
      [] class = "NotFoundError" -> 404
      [] class = "ServerError" -> 500
      [] OTHER -> 0

\* class(message, response): the exception constructed, which is a ValueError
\* when the constructor of the class rejects the status code of the response;
\* status_code is the property of APIError, read from the response
NewAPIError(class, message, response) ==
    IF RequiredStatusCode(class) # 0 /\ response.status_code # RequiredStatusCode(class)
      THEN [type |-> "ValueError",
            message |-> "The status code of the response must be "
                          \o ToString(RequiredStatusCode(class)) \o ".",
            status_code |-> 0]
      ELSE [type |-> class, message |-> message,
            status_code |-> response.status_code]

NoAPIError == [type |-> "<none>", message |-> "", status_code |-> 0]

\* variant: the error member is used when there is no message member
SessionMessageOrError(body) ==
    IF body.json = "object" /\ body.message # Absent THEN body.message
    ELSE IF body.json = "object" /\ body.error # Absent THEN body.error
    ELSE "API request error."

\* response.json()["message"], or the default message when that raises
\* JSONDecodeError, KeyError or TypeError
SessionMessage(body) ==
    IF body.json = "object" /\ body.message # Absent THEN body.message
    ELSE "API request error."

\* variant: 403 is taken for 401
ExceptionClassForbiddenAsNotAuthenticated(status_code) ==
    CASE status_code = 400 -> "BadRequestError"
      [] status_code \in {401, 403} -> "NotAuthenticatedError"
      [] status_code = 404 -> "NotFoundError"
      [] status_code = 500 -> "ServerError"
      [] OTHER -> "APIError"

\* the if/elif chain of _handle_errors
ExceptionClass(status_code) ==
    CASE status_code = 400 -> "BadRequestError"
      [] status_code = 401 -> "NotAuthenticatedError"
      [] status_code = 403 -> "ForbiddenError"
      [] status_code = 404 -> "NotFoundError"
      [] status_code = 500 -> "ServerError"
      [] OTHER -> "APIError"

\* the exception _handle_errors raises for the response (NoAPIError: none)
HandleErrors(response) ==
    IF response.status_code < 400 THEN NoAPIError
    ELSE NewAPIError(ExceptionClass(response.status_code),
                     SessionMessage(response.body), response)

(***************************************************************************)
(* submit: the checks of the submitted zip file and the POST request.      *)
(***************************************************************************)
\* names of the members of the zip files considered
Filenames ==
    {"Proposal.xml", "Blocks.xml", "Block.xml", "OtherContent.txt",
     "data/Proposal.xml"}

\* the proposal codes considered
ProposalCodes == {"2024-2-SCI-042", "2024-2-SCI-043"}

\* marks a Proposal.xml that is not well-formed XML
Malformed == "<malformed>"

\* the files submitted: is_zip tells what is_zipfile returns, filenames is
\* the namelist of the zip file (of its central directory, which may name a
\* member more than once), code the `code` attribute of the root element of
\* its Proposal.xml (Absent: no such attribute, or no Proposal.xml)
Files ==
    {f \in [is_zip : BOOLEAN,
            filenames : UNION {[1..n -> Filenames] : n \in 0..MaxFiles},
            code : {Absent, "", Malformed} \cup ProposalCodes] :
        /\ ~f.is_zip => f.filenames = <<>>
        /\ (\A i \in 1..Len(f.filenames) : f.filenames[i] # "Proposal.xml")
              => f.code = Absent}

NoError == [type |-> "<none>", message |-> <<>>]

ValueError(parts) == [type |-> "ValueError", message |-> parts]

NotAZipFile == ValueError(<<"The submitted file must be a zip file.">>)

NoRequiredFile ==
    ValueError(<<"The submitted zip file must contain a file ",
                 "Proposal.xml, Blocks.xml or Block.xml", ".">>)

SeveralRequiredFiles ==
    ValueError(<<"The submitted zip file must contain ",
                 "exactly one of Proposal.xml, Blocks.xml or Block.xml", ".">>)

ProposalCodeRequired ==
    ValueError(<<"A ", "proposal code is required", " for a block submission.">>)

\* str() of the proposal_code argument
Str(code) == IF code = None THEN "None" ELSE code

ProposalCodeMismatch(argument, code) ==
    ValueError(<<"The proposal code argument (", Str(argument),
                 ") does not match the proposal code in the submitted Proposal.xml file (",
                 code, ").">>)

ParseError == [type |-> "ParseError", message |-> <<>>]

\* the list comprehension of _check_submitted_content
RequiredFilenames(filenames) ==
    SelectSeq(filenames, LAMBDA f : f \in {"Proposal.xml", "Blocks.xml", "Block.xml"})

\* variant: only the absence of a required file is an error
ManifestErrorNoneOnly(required) ==
    IF Len(required) = 0 THEN NoRequiredFile ELSE NoError

\* the check that exactly one proposal or block file is present
ManifestError(required) ==
    IF Len(required) = 0 THEN NoRequiredFile
    ELSE IF Len(required) > 1 THEN SeveralRequiredFiles
    ELSE NoError

\* variant: only Blocks.xml needs a proposal code
LacksProposalCodeBlocksOnly(required, argument) ==
    /\ \E i \in 1..Len(required) : required[i] = "Blocks.xml"
    /\ argument = None

\* the check that a proposal code is present, if necessary
LacksProposalCode(required, argument) ==
    /\ \E i \in 1..Len(required) : required[i] \in {"Blocks.xml", "Block.xml"}
    /\ argument = None

\* variant: an empty code attribute is compared as well
IsInconsistentFromEmpty(code, argument) == code # Absent /\ argument # code

\* variant: without a proposal_code argument the code is not compared
IsInconsistentUnlessNone(code, argument) ==
    code \notin {Absent, ""} /\ argument # None /\ argument # code

\* `code and proposal_code != code`, for the code attribute of Proposal.xml
\* (Absent: attrib.get returns None)
IsInconsistent(code, argument) == code \notin {Absent, ""} /\ argument # code

\* variant: the proposal code of a block submission is asked for before the
\* required files are counted
CheckSubmittedContentCodeFirst(f, argument) ==
    LET required == RequiredFilenames(f.filenames)
    IN IF ~f.is_zip THEN NotAZipFile
       ELSE IF LacksProposalCode(required, argument) THEN ProposalCodeRequired
       ELSE IF ManifestError(required) # NoError THEN ManifestError(required)
       ELSE IF required[1] = "Proposal.xml"
              THEN IF f.code = Malformed THEN ParseError
                   ELSE IF IsInconsistent(f.code, argument)
                          THEN ProposalCodeMismatch(argument, f.code)
                   ELSE NoError
       ELSE NoError

\* the exception _check_submitted_content raises (NoError: none)
CheckSubmittedContent(f, argument) ==
    LET required == RequiredFilenames(f.filenames)
    IN IF ~f.is_zip THEN NotAZipFile
       ELSE IF ManifestError(required) # NoError THEN ManifestError(required)
       ELSE IF LacksProposalCode(required, argument) THEN ProposalCodeRequired
       ELSE IF required[1] = "Proposal.xml"
              THEN IF f.code = Malformed THEN ParseError
                   ELSE IF IsInconsistent(f.code, argument)
                          THEN ProposalCodeMismatch(argument, f.code)
                   ELSE NoError
       ELSE NoError

\* what may be passed as the file argument of submit
FileArguments == {"Path", "str", "BinaryIO"}

\* _is_file_like: the object has a read or write attribute and can be iterated
IsFileLike(kind) == kind = "BinaryIO"

\* the bytes of the submitted file
Content == [i \in 1..FileLength |-> i]

\* where reading the file may leave its read position
ReadOffsets == 0..FileLength

\* variant: the position is not set back after Proposal.xml has been read
OffsetsAfterCheckWithoutFinalSeek(f, argument) ==
    LET e == CheckSubmittedContent(f, argument)
    IN IF ~f.is_zip THEN ReadOffsets
       ELSE IF e \in {NoRequiredFile, SeveralRequiredFiles, ProposalCodeRequired}
              THEN {0}
       ELSE IF e # NoError THEN ReadOffsets
       ELSE IF RequiredFilenames(f.filenames)[1] = "Proposal.xml" THEN ReadOffsets
       ELSE {0}

\* the read positions of the file when _check_submitted_content is left:
\* is_zipfile, ZipFile and the parser read the file, and file.seek(0) follows
\* is_zipfile, namelist and the last check
OffsetsAfterCheck(f, argument) ==
    LET e == CheckSubmittedContent(f, argument)
    IN IF ~f.is_zip THEN ReadOffsets
       ELSE IF e \in {NoRequiredFile, SeveralRequiredFiles, ProposalCodeRequired}
              THEN {0}
       ELSE IF e # NoError THEN ReadOffsets
       ELSE {0}

\* the read position of a file object that has been closed
Closed == -1

\* the file object when submit is left, by return or by an exception: a file
\* that submit opened itself is closed by its with statement, a file object
\* of the caller is left as it is
OffsetAtExit(kind, position) == IF IsFileLike(kind) THEN position ELSE Closed

NoUpload == [field |-> "<none>", content |-> <<>>]

\* files={"proposal.zip": file}: the file is read from its read position on
Upload(from) ==
    [field |-> "proposal.zip", content |-> SubSeq(Content, from + 1, FileLength)]

\* the identifiers the server gives to submissions
Identifiers == {"abcd", "efgh"}

NoHandle == [class |-> "<None>"]

\* Submission(): an instance of the class, which defines no attribute
NewSubmission == [class |-> "Submission"]

\* no call of submit
NoSubmit ==
    /\ spc = "none"
    /\ file = [is_zip |-> FALSE, filenames |-> <<>>, code |-> Absent]
    /\ submit_proposal_code = None
    /\ raised = NoError
    /\ posted = None
    /\ numPosts = 0
    /\ identifier = None
    /\ handle = NoHandle
    /\ file_kind = "Path"
    /\ offset = 0
    /\ uploaded = NoUpload

\* submit is called, and has opened the file if it is given as a path
SubmitStart ==
    /\ spc = "called"
    /\ file \in Files
    /\ submit_proposal_code \in {None, ""} \cup ProposalCodes
    /\ raised = NoError
    /\ posted = None
    /\ numPosts = 0
    /\ identifier = None
    /\ handle = NoHandle
    /\ file_kind \in FileArguments
    /\ offset \in IF IsFileLike(file_kind) THEN ReadOffsets ELSE {0}
    /\ uploaded = NoUpload

\* _submit calls _check_submitted_content; when it raises, submit is left
CheckContent ==
    /\ spc = "called"
    /\ UNCHANGED <<streamVars, pollVars, transportVars>>
    /\ raised' = CheckSubmittedContent(file, submit_proposal_code)
    /\ spc' = IF raised' = NoError THEN "checked" ELSE "raised"
    /\ \E position \in OffsetsAfterCheck(file, submit_proposal_code) :
          offset' = IF raised' = NoError THEN position
                    ELSE OffsetAtExit(file_kind, position)
    /\ UNCHANGED <<file, submit_proposal_code, posted, numPosts, identifier,
                   handle, file_kind, uploaded>>

\* variant: the file is posted before it is checked
MayPostUnchecked(position) == position \in {"called", "checked"}

\* _submit reaches session.post only after _check_submitted_content returned
MayPost(position) == position = "checked"

\* the exception of the requests library when no response is received
ConnectionError ==
    [type |-> "ConnectionError", message |-> "", status_code |-> 0]

\* _submit calls session.post: the request is sent with the form data and the
\* file, which is read from its read position to its end, and the call waits
\* for the response
Post ==
    /\ MayPost(spc)
    /\ UNCHANGED <<streamVars, pollVars, transportVars>>
    /\ spc' = "posting"
    /\ posted' = IF submit_proposal_code # None
                   THEN [proposal_code |-> submit_proposal_code]
                   ELSE [proposal_code |-> Absent]
    /\ numPosts' = numPosts + 1
    /\ uploaded' = Upload(offset)
    /\ offset' = FileLength
    /\ UNCHANGED <<file, submit_proposal_code, raised, identifier, handle,
                   file_kind>>

\* the server answers: with an error status code session.post raises, else
\* _submit returns Submission() and the response, which carries the
\* identifier of the submission, is dropped
PostRespond ==
    /\ spc = "posting"
    /\ UNCHANGED <<streamVars, pollVars, transportVars>>
    /\ \E status_code \in StatusCodes, body \in Bodies, id \in Identifiers :
          LET e == HandleErrors(HttpResponse(status_code, body))
          IN IF e = NoAPIError
               THEN /\ spc' = "returned"
                    /\ identifier' = id
                    /\ handle' = NewSubmission
                    /\ UNCHANGED raised
               ELSE /\ spc' = "raised"
                    /\ raised' = [type |-> e.type, message |-> <<e.message>>]
                    /\ UNCHANGED <<identifier, handle>>
    /\ offset' = OffsetAtExit(file_kind, offset)
    /\ UNCHANGED <<file, submit_proposal_code, posted, numPosts, file_kind,
                   uploaded>>

\* no response arrives: the ConnectionError of the requests library leaves
\* session.post and submit
PostFailed ==
    /\ spc = "posting"
    /\ UNCHANGED <<streamVars, pollVars, transportVars>>
    /\ spc' = "raised"
    /\ raised' = [type |-> ConnectionError.type,
                  message |-> <<ConnectionError.message>>]
    /\ offset' = OffsetAtExit(file_kind, offset)
    /\ UNCHANGED <<file, submit_proposal_code, posted, numPosts, identifier,
                   handle, file_kind, uploaded>>

(***************************************************************************)
(* Session: the calls of request, get, post, put, patch, delete, login,    *)
(* logout and of the base_url setter.                                      *)
(***************************************************************************)
Methods == {"GET", "POST", "PUT", "PATCH", "DELETE"}

\* the endpoints considered
Endpoints ==
    {"/status", "/", "status", "//status", "http://example.org/status",
     "https://example.org/status"}

\* the values given to the base URL
BaseUrls ==
    {DEFAULT_BASE_URL, "https://new.base.url", "https://slashes.example.org/"}

\* the values of the token member of the server's answer to a login
\* (None: JSON null)
Tokens == {"secret_token", "other_token", None}

TokenBodies == {Body("object", Absent, Absent, token) : token \in Tokens}

\* the methods of the Session that make a request, with the HTTP method they use
Helpers ==
    {[name |-> "request", method |-> method] : method \in Methods}
      \cup {[name |-> "get", method |-> "GET"],
            [name |-> "post", method |-> "POST"],
            [name |-> "put", method |-> "PUT"],
            [name |-> "patch", method |-> "PATCH"],
            [name |-> "delete", method |-> "DELETE"]}

NoRequest == [method |-> "<none>", url |-> "", authorization |-> Absent]

NoResponse == HttpResponse(0, Body("<none>", Absent, Absent, Absent))

\* a call: its name and argument, the HTTP request it has sent (NoRequest:
\* none), the response received (NoResponse: none), whether the call returned
\* that response, and the exception it raised (NoAPIError: none)
Call(name, argument, request, response, returns, raises) ==
    [name |-> name, argument |-> argument, sent |-> request,
     response |-> response, returned |-> returns, raised |-> raises]

NoCall == Call("<none>", "", NoRequest, NoResponse, FALSE, NoAPIError)

\* variant: only full URLs are rejected
EndpointErrorFullUrlOnly(endpoint) ==
    IF StartsWith(endpoint, "http://") \/ StartsWith(endpoint, "https://")
      THEN [type |-> "ValueError",
            message |-> "The endpoint must be the path relative to the base "
                          \o "URL, not the URL itself. An example would be "
                          \o "\"/status\".",
            status_code |-> 0]
      ELSE NoAPIError

\* the ValueError request raises for the endpoint (NoAPIError: none)
EndpointError(endpoint) ==
    IF StartsWith(endpoint, "http://") \/ StartsWith(endpoint, "https://")
      THEN [type |-> "ValueError",
            message |-> "The endpoint must be the path relative to the base "
                          \o "URL, not the URL itself. An example would be "
                          \o "\"/status\".",
            status_code |-> 0]
    ELSE IF ~StartsWith(endpoint, "/") \/ StartsWith(endpoint, "//")
      THEN [type |-> "ValueError",
            message |-> "The endpoint must start with a single slash. An "
                          \o "example would be \"/status\".",
            status_code |-> 0]
    ELSE NoAPIError

\* the logged_in property
LoggedIn == authorization # Absent

\* request, up to the point where the HTTP request has been sent
SendRequest(name, method, endpoint) ==
    LET e == EndpointError(endpoint)
        url == base_url \o endpoint
    IN IF e # NoAPIError
         THEN /\ call' = Call(name, endpoint, NoRequest, NoResponse, FALSE, e)
              /\ spos' = "idle"
         ELSE /\ call' = Call(name, endpoint,
                              [method |-> method, url |-> url,
                               authorization |-> authorization],
                              NoResponse, FALSE, NoAPIError)
              /\ spos' = "awaiting"

\* a call of request, get, post, put, patch or delete
Send ==
    /\ spos = "idle"
    /\ \E helper \in Helpers, endpoint \in Endpoints :
          SendRequest(helper.name, helper.method, endpoint)
    /\ UNCHANGED <<base_url, authorization, webVars>>
    /\ UNCHANGED <<streamVars, pollVars, submitVars>>

\* the response arrives: _handle_errors, and the response is returned
Respond ==
    /\ spos = "awaiting"
    /\ call.name # "login"
    /\ \E status_code \in StatusCodes, body \in Bodies :
          LET response == HttpResponse(status_code, body)
              e == HandleErrors(response)
          IN call' = [call EXCEPT !.response = response,
                                  !.returned = (e = NoAPIError),
                                  !.raised = e]
    /\ spos' = "idle"
    /\ UNCHANGED <<base_url, authorization, webVars>>
    /\ UNCHANGED <<streamVars, pollVars, submitVars>>

\* no response arrives: the exception of the requests library propagates
ConnectionFailed ==
    /\ spos = "awaiting"
    /\ call' = [call EXCEPT !.raised = ConnectionError]
    /\ spos' = "idle"
    /\ UNCHANGED <<base_url, authorization, webVars>>
    /\ UNCHANGED <<streamVars, pollVars, submitVars>>

\* login, up to the point where the request for the token has been sent
Login ==
    /\ spos = "idle"
    /\ SendRequest("login", "POST", "/token")
    /\ UNCHANGED <<base_url, authorization, webVars>>
    /\ UNCHANGED <<streamVars, pollVars, submitVars>>

\* the Authorization header login sets for the token
Bearer(token) == "Bearer " \o Str(token)

\* variant: a login that fails logs the user out
LoginRespondLogsOut ==
    /\ spos = "awaiting"
    /\ call.name = "login"
    /\ \E status_code \in StatusCodes, body \in Bodies \cup TokenBodies :
          LET response == HttpResponse(status_code, body)
              e == HandleErrors(response)
          IN IF e # NoAPIError
               THEN /\ call' = [call EXCEPT !.response = response, !.raised = e]
                    /\ authorization' = Absent
             ELSE IF body.json # "object" \/ body.token = Absent
               THEN /\ call' = [call EXCEPT
                                  !.response = response,
                                  !.raised =
                                      NewAPIError("APIError",
                                          "The server response cannot be parsed.",
                                          response)]
                    /\ authorization' = Absent
             ELSE /\ call' = [call EXCEPT !.response = response]
                  /\ authorization' = Bearer(body.token)
    /\ spos' = "idle"
    /\ UNCHANGED <<base_url, webVars>>
    /\ UNCHANGED <<streamVars, pollVars, submitVars>>

\* login, from the arrival of the server's response
LoginRespond ==
    /\ spos = "awaiting"
    /\ call.name = "login"
    /\ \E status_code \in StatusCodes, body \in Bodies \cup TokenBodies :
          LET response == HttpResponse(status_code, body)
              e == HandleErrors(response)
          IN IF e # NoAPIError
               THEN /\ call' = [call EXCEPT !.response = response, !.raised = e]
                    /\ UNCHANGED authorization
             ELSE IF body.json # "object" \/ body.token = Absent
               THEN /\ call' = [call EXCEPT
                                  !.response = response,
                                  !.raised =
                                      NewAPIError("APIError",
                                          "The server response cannot be parsed.",
                                          response)]
                    /\ UNCHANGED authorization
             ELSE /\ call' = [call EXCEPT !.response = response]
                  /\ authorization' = Bearer(body.token)
    /\ spos' = "idle"
    /\ UNCHANGED <<base_url, webVars>>
    /\ UNCHANGED <<streamVars, pollVars, submitVars>>

\* str.lower, for the names of the headers in use
Lower(key) ==
    CASE key = "Authorization" -> "authorization"
      [] OTHER -> key

\* the KeyError of the headers of a requests session, a CaseInsensitiveDict,
\* which looks up and deletes under the lowered key
KeyError(key) == [type |-> "KeyError", message |-> Lower(key), status_code |-> 0]

\* variant: the header is removed without asking whether it is set
LogoutUnguarded ==
    /\ spos = "idle"
    /\ IF LoggedIn
         THEN /\ authorization' = Absent
              /\ call' = Call("logout", "", NoRequest, NoResponse, FALSE,
                              NoAPIError)
         ELSE /\ UNCHANGED authorization
              /\ call' = Call("logout", "", NoRequest, NoResponse, FALSE,
                              KeyError("Authorization"))
    /\ UNCHANGED <<spos, base_url, webVars>>
    /\ UNCHANGED <<streamVars, pollVars, submitVars>>

\* logout
Logout ==
    /\ spos = "idle"
    /\ authorization' = IF LoggedIn THEN Absent ELSE authorization
    /\ call' = Call("logout", "", NoRequest, NoResponse, FALSE, NoAPIError)
    /\ UNCHANGED <<spos, base_url, webVars>>
    /\ UNCHANGED <<streamVars, pollVars, submitVars>>

\* variant: the value is assigned before it is checked
BaseUrlSetterAssignsFirst ==
    /\ spos = "idle"
    /\ \E value \in BaseUrls :
          /\ base_url' = value
          /\ call' = Call("base_url", value, NoRequest, NoResponse, FALSE,
                          IF EndsWith(value, "/")
                            THEN [type |-> "ValueError",
                                  message |-> "The base URL must not have a "
                                                \o "trailing slash.",
                                  status_code |-> 0]
                            ELSE NoAPIError)
    /\ UNCHANGED <<spos, authorization, webVars>>
    /\ UNCHANGED <<streamVars, pollVars, submitVars>>

\* the setter of the base_url property
BaseUrlSetter ==
    /\ spos = "idle"
    /\ \E value \in BaseUrls :
          IF EndsWith(value, "/")
            THEN /\ call' = Call("base_url", value, NoRequest, NoResponse, FALSE,
                                 [type |-> "ValueError",
                                  message |-> "The base URL must not have a "
                                                \o "trailing slash.",
                                  status_code |-> 0])
                 /\ UNCHANGED base_url
            ELSE /\ call' = Call("base_url", value, NoRequest, NoResponse, FALSE,
                                 NoAPIError)
                 /\ base_url' = value
    /\ UNCHANGED <<spos, authorization, webVars>>
    /\ UNCHANGED <<streamVars, pollVars, submitVars>>

\* Session.get_instance(): the session as it is created
SessionStart ==
    /\ spos = "idle"
    /\ base_url = DEFAULT_BASE_URL
    /\ authorization = Absent

\* the Session is not used
NoSession ==
    /\ spos = "none"
    /\ base_url = DEFAULT_BASE_URL
    /\ authorization = Absent

(***************************************************************************)
(* pyastrosalt.web: set_base_url, SessionHandler and check_for_http_errors.*)
(***************************************************************************)
\* DEFAULT_STATUS_CODE_ERRORS.get(status_code, ...)
DefaultStatusCodeError(status_code) ==
    CASE status_code = 400 -> "It seems there was a problem with your input."
      [] status_code = 401 ->
           "You are not authenticated. Please use pyastrosalt.web.login to "
             \o "authenticate."
      [] status_code = 403 -> "You are not allowed to perform this action."
      [] status_code = 404 ->
           "The required API endpoint could not be found. Please contact SALT."
      [] status_code = 500 ->
           "An internal server error has occurred. Please contact SALT."
      [] OTHER ->
           "The request failed with a status code " \o ToString(status_code)
             \o "."

\* the message check_for_http_errors finds for the response
WebMessage(response) ==
    IF response.body.json = "object" /\ response.body.message # Absent
      THEN response.body.message
    ELSE IF response.body.json = "object" /\ response.body.error # Absent
      THEN response.body.error
    ELSE DefaultStatusCodeError(response.status_code)

\* the exception check_for_http_errors raises for the response (NoAPIError:
\* none)
HttpStatusError(response) ==
    IF response.status_code < 400 THEN NoAPIError
    ELSE [type |-> "HttpStatusError", message |-> WebMessage(response),
          status_code |-> response.status_code]

\* check_for_http_errors(response)
CheckForHttpErrors ==
    /\ wpos = "idle"
    /\ \E status_code \in StatusCodes, body \in Bodies :
          LET response == HttpResponse(status_code, body)
          IN call' = Call("check_for_http_errors", "", NoRequest, response,
                          FALSE, HttpStatusError(response))
    /\ UNCHANGED <<wpos, BASE_URL, access_token, handler_authorization>>
    /\ UNCHANGED <<sessionVars, streamVars, pollVars, submitVars>>

\* set_base_url(base_url)
SetBaseUrl ==
    /\ wpos = "idle"
    /\ \E value \in BaseUrls :
          /\ BASE_URL' = value
          /\ call' = Call("set_base_url", value, NoRequest, NoResponse, FALSE,
                          NoAPIError)
    /\ UNCHANGED <<wpos, access_token, handler_authorization>>
    /\ UNCHANGED <<sessionVars, streamVars, pollVars, submitVars>>

\* the access tokens given to set_access_token
AccessTokens == {"secret_token", "other_token", ""}

\* SessionHandler.set_access_token(access_token)
SetAccessToken ==
    /\ wpos = "idle"
    /\ \E token \in AccessTokens :
          /\ access_token' = token
          /\ handler_authorization' = "Bearer " \o token
          /\ call' = Call("set_access_token", token, NoRequest, NoResponse,
                          FALSE, NoAPIError)
    /\ UNCHANGED <<wpos, BASE_URL>>
    /\ UNCHANGED <<sessionVars, streamVars, pollVars, submitVars>>

\* variant: nothing is done when no header is set
DeleteAccessTokenIfSet ==
    /\ wpos = "idle"
    /\ access_token' = None
    /\ handler_authorization' = Absent
    /\ call' = Call("delete_access_token", "", NoRequest, NoResponse, FALSE,
                    NoAPIError)
    /\ UNCHANGED <<wpos, BASE_URL>>
    /\ UNCHANGED <<sessionVars, streamVars, pollVars, submitVars>>

\* SessionHandler.delete_access_token()
DeleteAccessToken ==
    /\ wpos = "idle"
    /\ access_token' = None
    /\ IF handler_authorization # Absent
         THEN /\ handler_authorization' = Absent
              /\ call' = Call("delete_access_token", "", NoRequest, NoResponse,
                              FALSE, NoAPIError)
         ELSE /\ UNCHANGED handler_authorization
              /\ call' = Call("delete_access_token", "", NoRequest, NoResponse,
                              FALSE, KeyError("Authorization"))
    /\ UNCHANGED <<wpos, BASE_URL>>
    /\ UNCHANGED <<sessionVars, streamVars, pollVars, submitVars>>

\* pyastrosalt.web as it is imported
WebStart ==
    /\ wpos = "idle"
    /\ BASE_URL = "http://example.com:8001"
    /\ access_token = None
    /\ handler_authorization = Absent

\* pyastrosalt.web is not used
NoWeb ==
    /\ wpos = "none"
    /\ BASE_URL = "http://example.com:8001"
    /\ access_token = None
    /\ handler_authorization = Absent

\* neither the Session nor pyastrosalt.web is used
NoTransport == NoSession /\ NoWeb /\ call = NoCall

(***************************************************************************)
(* Specifications.                                                         *)
(***************************************************************************)
\* no generator has been created
NoStream ==
    /\ pc = "none"
    /\ max_retries = 0
    /\ srvBad = 0
    /\ num_retries = 0
    /\ received_log_entries = 0
    /\ reqFrom = 0
    /\ srvNext = 0
    /\ srvHonest = TRUE
    /\ received = <<>>
    /\ yielded = <<>>
    /\ runFails = 0
    /\ prevRunFails = 0
    /\ exc = NoExc

\* no Submission has been created
NoSubmission ==
    /\ ppc = "none"
    /\ poll_max_retries = 0
    /\ now = 0
    /\ status = "SubmissionStatus.IN_PROGRESS"
    /\ log = <<>>
    /\ next_expected_entry_number = 1
    /\ last_refreshed_at = Unset
    /\ proposal_code = None
    /\ consecutive_failures = 0
    /\ netCalls = 0
    /\ callsAtRefresh = 0
    /\ pollFrom = 0
    /\ readSince = {}
    /\ inFlight = 0
    /\ waiting = 0
    /\ outcome = "none"

\* streaming mode: one run of submission_progress
StreamInit == StreamStart /\ NoSubmission /\ NoSubmit /\ NoTransport

StreamNext ==
    \/ Start
    \/ ConnectOk
    \/ ConnectFail
    \/ SendToken
    \/ SendFail
    \/ RecvMessage
    \/ RecvOutOfSequence
    \/ RecvClosedOK
    \/ RecvError
    \/ RecvNotJson
    \/ Resume
    \/ Backoff
    \/ Close
    \/ Cancel

Spec == StreamInit /\ [][StreamNext]_vars

\* polling-cache mode: one Submission and its reader
PollInit ==
    /\ SubmissionStart
    /\ poll_max_retries \in 0..MaxPollRetries
    /\ NoStream
    /\ NoSubmit
    /\ NoTransport

PollNext ==
    \/ ReadProperty
    \/ ReadWhileRefreshing
    \/ FetchResponse
    \/ FetchOutOfSequence
    \/ FetchError
    \/ Tick

SpecPoll == PollInit /\ [][PollNext]_vars

\* a call of submit
SubmitInit == SubmitStart /\ NoStream /\ NoSubmission /\ NoTransport

SubmitNext == CheckContent \/ Post \/ PostRespond \/ PostFailed

SpecSubmit == SubmitInit /\ [][SubmitNext]_vars

\* either mode: the caller tracks the submission with the generator or with a
\* Submission, not with both
RetryInit == StreamInit \/ PollInit

RetryNext == StreamNext \/ PollNext

SpecRetry == RetryInit /\ [][RetryNext]_vars

\* the calls made on the Session
SessionInit ==
    /\ SessionStart
    /\ NoWeb
    /\ call = NoCall
    /\ NoStream
    /\ NoSubmission
    /\ NoSubmit

SessionNext ==
    \/ Send
    \/ Respond
    \/ ConnectionFailed
    \/ Login
    \/ LoginRespond
    \/ Logout
    \/ BaseUrlSetter

SpecSession == SessionInit /\ [][SessionNext]_vars

\* the calls made on pyastrosalt.web
WebInit ==
    /\ WebStart
    /\ NoSession
    /\ call = NoCall
    /\ NoStream
    /\ NoSubmission
    /\ NoSubmit

WebNext ==
    \/ CheckForHttpErrors
    \/ SetBaseUrl
    \/ SetAccessToken
    \/ DeleteAccessToken

SpecWeb == WebInit /\ [][WebNext]_vars

\* the transport layer: the program uses the Session or pyastrosalt.web
TransportInit == SessionInit \/ WebInit

TransportNext == SessionNext \/ WebNext

SpecTransport == TransportInit /\ [][TransportNext]_vars

(***************************************************************************)
(* Properties.                                                             *)
(***************************************************************************)
RECURSIVE TotalEntries(_)
\* the number of log entries in a sequence of messages
TotalEntries(items) ==
    IF items = <<>> THEN 0
    ELSE Len(items[1].log_entries) + TotalEntries(Tail(items))

RECURSIVE EntryNumbers(_)
\* the entry numbers of the log entries of a sequence of messages, in order
EntryNumbers(items) ==
    IF items = <<>> THEN <<>>
    ELSE [i \in 1..Len(items[1].log_entries) |-> items[1].log_entries[i].entry_number]
         \o EntryNumbers(Tail(items))

IsTerminal(item) ==
    item.status \in {"SubmissionStatus.FAILED", "SubmissionStatus.SUCCESSFUL"}

\* C1: with max_retries = N >= 0 a run of consecutive failures has at most
\* N + 1 failed attempts; a message is yielded after at most N failures; the
\* generator goes on as long as fewer than N + 1 attempts failed in a row and
\* has raised only after N + 1 of them.
ThmC1 ==
    max_retries >= 0 =>
        /\ runFails <= max_retries + 1
        /\ pc = "yielded" => prevRunFails <= max_retries
        /\ pc \in {"connect", "send", "recv", "yielded", "done"}
              => runFails <= max_retries
        /\ pc = "raised" => runFails = max_retries + 1

\* N >= 1 attempts failed and the next one delivered a message
WitC1 ==
    /\ max_retries >= 1
    /\ pc = "yielded"
    /\ prevRunFails = max_retries

\* C2 as stated: the generator raises only after N + 2 consecutive failures.
CexC2 == pc = "raised" => runFails >= max_retries + 2

\* C2, amended: with max_retries = N >= 0, N consecutive failures do not make
\* the generator raise, and N + 1 consecutive failures (the initial attempt
\* plus N retries) do: it has raised only after N + 1 attempts failed in a
\* row, and when N + 1 attempts failed in a row it has raised or is in the
\* wait that precedes the raise (where only a cancellation of the task can
\* still take the place of the raise).
ThmC2 ==
    max_retries >= 0 =>
        /\ runFails <= max_retries => pc # "raised"
        /\ pc = "raised" => runFails = max_retries + 1
        /\ runFails = max_retries + 1
              => \/ pc = "raised"
                 \/ pc \in {"sleep", "cancelled"} /\ num_retries = max_retries

\* the generator has raised after N + 1 >= 2 failures in a row
WitC2 ==
    /\ max_retries >= 1
    /\ pc = "raised"
    /\ runFails = max_retries + 1

\* C3: the retry counter of the generator always is the number of attempts
\* that failed since the last yielded message, whatever that message contained
\* (the failure being handled is counted after the backoff).
ThmC3 ==
    /\ pc \in {"connect", "send", "recv", "raised", "done"}
          => num_retries = runFails
    /\ pc = "sleep" => num_retries + 1 = runFails

\* failures, then a message without log entries and with status 'In progress',
\* then max_retries further failures, and the generator connects once more
WitC3 ==
    /\ max_retries >= 1
    /\ pc = "connect"
    /\ runFails = max_retries
    /\ prevRunFails >= 1
    /\ yielded # <<>>
    /\ Last(yielded).log_entries = <<>>
    /\ Last(yielded).status = "SubmissionStatus.IN_PROGRESS"

\* C4: every connection asks for from_entry_number = 1 + the number of log
\* entries yielded so far; the cursor never decreases and a failed attempt
\* leaves it alone; with a server that honours from_entry_number the entries
\* yielded are the entries 1, 2, ..., n, each once and in this order.
ThmC4 ==
    /\ [](/\ pc \in {"start", "connect", "send", "recv", "sleep", "raised",
                     "done"}
             => received_log_entries = TotalEntries(yielded)
          /\ srvHonest =>
                EntryNumbers(yielded) = [i \in 1..TotalEntries(yielded) |-> i])
    /\ [][/\ reqFrom' >= reqFrom
          /\ reqFrom' # reqFrom \/ (pc = "connect" /\ pc' \in {"send", "sleep"})
                => reqFrom' = 1 + TotalEntries(yielded)
          /\ pc' = "sleep" => received_log_entries' = received_log_entries]_vars

\* all entries of the server have been yielded over more than one connection
WitC4 ==
    /\ srvHonest
    /\ pc = "done"
    /\ reqFrom > 1
    /\ EntryNumbers(yielded) = [i \in 1..MaxEntries |-> i]
RECURSIVE ConvertedOf(_)
\* what the generator is to yield for a sequence of received messages: each
\* message that converts, with its status, timestamps and message types
\* converted and everything else as received
ConvertedOf(msgs) ==
    IF msgs = <<>> THEN <<>>
    ELSE LET m == msgs[1]
             item == [status |-> SubmissionStatus(m.status),
                      log_entries |->
                          [i \in 1..Len(m.log_entries) |->
                              [entry_number |-> m.log_entries[i].entry_number,
                               logged_at |-> fromisoformat(m.log_entries[i].logged_at),
                               message_type |->
                                   SubmissionLogMessageType(m.log_entries[i].message_type),
                               message |-> m.log_entries[i].message]],
                      proposal_code |-> m.proposal_code]
         IN (IF ConvertsWithoutError(m) THEN <<item>> ELSE <<>>)
            \o ConvertedOf(Tail(msgs))

\* the i-th yielded message starts at the entry that follows the entries
\* yielded before it
StartsAtCursor(i) ==
    yielded[i].log_entries # <<>> =>
        yielded[i].log_entries[1].entry_number = 1 + TotalEntries(SubSeq(yielded, 1, i - 1))

\* C5 as stated: a message whose first entry number is not the expected cursor
\* is never yielded.
CexC5 == \A i \in 1..Len(yielded) : StartsAtCursor(i)

\* C5, amended: submission_progress does not look at entry numbers: a message
\* that converts is yielded as it is, whatever its first entry number, it is
\* no failure, and all its entries are counted towards the cursor.
ThmC5 ==
    [][/\ (received' # received /\ ConvertsWithoutError(Last(received')))
            => /\ pc' = "yielded"
               /\ yielded' = Append(yielded, Last(ConvertedOf(received')))
               /\ runFails' = 0
       /\ (pc = "yielded" /\ pc' \notin {"yielded", "closed"})
            => received_log_entries' = TotalEntries(yielded)]_vars

\* a message that does not start at the cursor has been yielded and counted
WitC5 ==
    /\ pc = "recv"
    /\ yielded # <<>>
    /\ ~StartsAtCursor(Len(yielded))
    /\ received_log_entries = TotalEntries(yielded)
    /\ runFails = 0

\* C6 as stated: once a message with a terminal status has been yielded the
\* generator waits for no further message and does not reconnect: it is
\* suspended at that yield or has ended.
CexC6 ==
    (\E i \in 1..Len(yielded) : IsTerminal(yielded[i])) => pc \in {"yielded", "done"}

\* C6, amended: the generator ends without raising only when the server
\* closes the connection normally (or at once, when max_retries is negative);
\* a terminal status does not end it: after any yielded message, terminal or
\* not, it goes on receiving when the consumer asks for the next item.
ThmC6 ==
    [][/\ (pc # "done" /\ pc' = "done")
            => \/ pc = "recv" /\ received' = received /\ runFails' = runFails
               \/ pc = "start" /\ max_retries < 0
       /\ (pc = "yielded" /\ pc' \notin {"yielded", "closed"}) => pc' = "recv"]_vars

\* a message was yielded after one with a terminal status, and the generator
\* ended when the server closed the connection
WitC6 ==
    /\ pc = "done"
    /\ Len(yielded) >= 2
    /\ IsTerminal(yielded[1])

\* C7: the items yielded are the converted messages, one per received message
\* that converts, in arrival order; none is merged, dropped or reordered.
ThmC7 == yielded = ConvertedOf(received)

\* two messages, one of them without log entries, arrived over one connection
\* without any failure and the generator has ended
WitC7 ==
    /\ pc = "done"
    /\ num_retries = 0
    /\ reqFrom = 1
    /\ Len(received) >= 2
    /\ Len(yielded) = Len(received)
    /\ \E i \in 1..Len(yielded) : yielded[i].log_entries = <<>>
    /\ \E i \in 1..Len(yielded) : yielded[i].log_entries # <<>>

\* C8: as long as less than the polling interval has passed since the last
\* refresh, no read issues a progress request: the number of requests is the
\* one at the end of that refresh and no fetch is under way.
ThmC8 ==
    (last_refreshed_at # Unset /\ now - last_refreshed_at < POLLING_INTERVAL) =>
        /\ netCalls = callsAtRefresh
        /\ ppc = "idle"

\* the first read polled once, all four properties have been read since, the
\* last of them 9 seconds after the refresh, and one request was made in total
WitC8 ==
    /\ readSince = Properties
    /\ netCalls = 1
    /\ outcome = "fresh"
    /\ now = last_refreshed_at + 9

\* C9: a read when the polling interval or more has passed since the last
\* refresh and the status is InProgress issues one progress request from the
\* cursor; when the request succeeds the read issues no other and sets
\* last_refreshed_at to the current time.
ThmC9 ==
    [][/\ (/\ ppc = "idle"
           /\ now' = now
           /\ last_refreshed_at # Unset
           /\ now - last_refreshed_at >= POLLING_INTERVAL
           /\ status = "SubmissionStatus.IN_PROGRESS")
            => /\ ppc' = "fetching"
               /\ netCalls' = netCalls + 1
               /\ pollFrom' = next_expected_entry_number
       /\ (ppc = "fetching" /\ outcome' = "polled")
            => /\ netCalls' = netCalls
               /\ last_refreshed_at' = now']_vars

\* a read exactly one polling interval after a refresh has issued a request
WitC9 ==
    /\ ppc = "fetching"
    /\ last_refreshed_at # Unset
    /\ now = last_refreshed_at + POLLING_INTERVAL
    /\ netCalls = callsAtRefresh + 1

\* C10: once the cached status is Failed or Successful no progress request is
\* issued any more.
ThmC10 ==
    [][(status \in {"SubmissionStatus.FAILED", "SubmissionStatus.SUCCESSFUL"})
         => (netCalls' = netCalls /\ ppc' = "idle" /\ status' = status)]_vars

\* a terminal submission was read when its cache was stale, and the read was
\* answered from the cache
WitC10 ==
    /\ outcome = "terminal"
    /\ now - last_refreshed_at >= POLLING_INTERVAL
    /\ netCalls = callsAtRefresh
\* the i-th log entry of the progress endpoint's server, as a Submission is to
\* hold it
ExpectedLogEntry(i) ==
    [logged_at |-> fromisoformat(Dates[((i - 1) % 5) + 1]),
     message_type |-> SubmissionMessageType(PollTypes[((i - 1) % 5) + 1]),
     message |-> Texts[((i - 1) % 5) + 1]]

RECURSIVE LastErrorMessage(_)
\* the message of the last entry of type Error, None if there is none
LastErrorMessage(entries) ==
    IF entries = <<>> THEN None
    ELSE IF Last(entries).message_type = "SubmissionMessageType.ERROR"
           THEN Last(entries).message
           ELSE LastErrorMessage(SubSeq(entries, 1, Len(entries) - 1))

\* C11: the cursor is 1 + the number of log entries merged so far, and every
\* progress request under way carries it as from_entry_number, whichever
\* property was read; a batch without entries therefore leaves it unchanged.
ThmC11 ==
    /\ next_expected_entry_number = 1 + Len(log)
    /\ ppc = "fetching" => pollFrom = 1 + Len(log)
    /\ netCalls = 0 => next_expected_entry_number = 1

\* a batch without entries was merged and the next request, started by a read
\* of `error`, asks for entry 1 again
WitC11 ==
    /\ ppc = "fetching"
    /\ last_refreshed_at # Unset
    /\ log = <<>>
    /\ pollFrom = 1
    /\ netCalls >= 2
    /\ readSince = {"error"}

\* C12: the log is the server's entries 1, 2, ..., n in this order, each once,
\* the cursor is n + 1, and a merge only appends to the log.
ThmC12 ==
    /\ [](/\ log = [i \in 1..Len(log) |-> ExpectedLogEntry(i)]
          /\ next_expected_entry_number = Len(log) + 1)
    /\ [][/\ Len(log') >= Len(log)
          /\ SubSeq(log', 1, Len(log)) = log]_vars

\* two polls or more have delivered at least two entries
WitC12 ==
    /\ Len(log) >= 2
    /\ callsAtRefresh >= 2
    /\ consecutive_failures = 0
    /\ outcome = "polled"

\* C13: `error` is None unless the status is Failed, also when the log has
\* entries of type Error; when the status is Failed it is the message of the
\* last entry of type Error.
ThmC13 ==
    /\ status # "SubmissionStatus.FAILED" => PropertyValue("error") = <<None>>
    /\ status = "SubmissionStatus.FAILED"
          => PropertyValue("error") = <<LastErrorMessage(log)>>

\* `error` of a failed submission with two entries of type Error has been read
WitC13 ==
    /\ status = "SubmissionStatus.FAILED"
    /\ Len(log) >= 2
    /\ log[1].message_type = "SubmissionMessageType.ERROR"
    /\ log[2].message_type = "SubmissionMessageType.ERROR"
    /\ "error" \in readSince
    /\ ppc = "idle"
    /\ PropertyValue("error") = <<"Message 2">>

\* C14: the proposal code is set exactly when the status is Successful.
ThmC14 == (proposal_code # None) <=> (status = "SubmissionStatus.SUCCESSFUL")

\* a successful submission with its proposal code, read after two polls
WitC14 ==
    /\ status = "SubmissionStatus.SUCCESSFUL"
    /\ proposal_code = "2024-2-SCI-055"
    /\ callsAtRefresh >= 2
    /\ "proposal_code" \in readSince

\* C15: the status starts as InProgress and changes only from InProgress to
\* Failed or to Successful.
ThmC15 ==
    /\ status = "SubmissionStatus.IN_PROGRESS"
    /\ [][status' # status
            => /\ status = "SubmissionStatus.IN_PROGRESS"
               /\ status' \in {"SubmissionStatus.FAILED", "SubmissionStatus.SUCCESSFUL"}]_vars

\* a submission that failed after a poll that left it in progress, read again
\* when its cache was stale
WitC15 ==
    /\ status = "SubmissionStatus.FAILED"
    /\ callsAtRefresh >= 2
    /\ Len(log) >= 1
    /\ outcome = "terminal"
\* C16: when the retry bound is exceeded the failure reaches the caller: the
\* generator raises the exception of its last failed attempt, the
\* (max_retries + 1)-th in a row, itself and not the first one or another
\* exception; a property read of a Submission whose fetch fails with the bound
\* exceeded ends by raising, and ends in no other way without a merge.
ThmC16 ==
    /\ [](pc = "raised"
            => /\ runFails = max_retries + 1
               /\ exc.attempt = max_retries + 1
               /\ exc.type \in {"OSError", "ConnectionClosedError",
                               "JSONDecodeError", "ValueError"})
    /\ [][/\ runFails' = runFails + 1
               => /\ pc' = "sleep"
                  /\ exc'.attempt = runFails'
          /\ (pc = "sleep" /\ pc' = "raised") => exc' = exc]_vars
    /\ [](outcome = "raised" => consecutive_failures > poll_max_retries)
    /\ [][(ppc = "fetching" /\ consecutive_failures' > consecutive_failures)
            => IF consecutive_failures' > poll_max_retries
                 THEN ppc' = "idle" /\ outcome' = "raised"
                 ELSE ppc' = "fetching" /\ outcome' = "none"]_vars
    /\ [][(ppc = "fetching" /\ ppc' = "idle")
            => outcome' = "raised" \/ (outcome' = "polled" /\ last_refreshed_at' = now)]_vars

\* with max_retries = 1 the generator has raised the JSONDecodeError of its
\* second failed attempt, after a message had been yielded
WitC16 ==
    /\ pc = "raised"
    /\ max_retries = 1
    /\ runFails = 2
    /\ exc = [type |-> "JSONDecodeError", attempt |-> 2]
    /\ yielded # <<>>
\* a field of the message cannot be converted: the status, or the message type
\* or the timestamp of one of its log entries
Unparsable(p) ==
    \/ p.status \notin {"In progress", "Failed", "Successful"}
    \/ \E i \in 1..Len(p.log_entries) :
          \/ p.log_entries[i].message_type \notin {"Info", "Warning", "Error"}
          \/ p.log_entries[i].logged_at \notin IsoStrings

\* C18: a message that cannot be parsed is handled like a connection failure:
\* nothing of it is yielded, the cursor stays, the failure is counted and
\* handled by the backoff, after which the generator raises the failure if the
\* bound is exceeded and else connects again with the same from_entry_number.
ThmC18 ==
    /\ [][(received' # received /\ Unparsable(Last(received')))
            => /\ yielded' = yielded
               /\ received_log_entries' = received_log_entries
               /\ num_retries' = num_retries
               /\ runFails' = runFails + 1
               /\ pc' = "sleep"
               /\ exc' = [type |-> "ValueError", attempt |-> runFails + 1]]_vars
    /\ [][(pc = "sleep" /\ pc' # "sleep")
            => /\ yielded' = yielded
               /\ received_log_entries' = received_log_entries
               /\ \/ pc' = "cancelled"
                  \/ /\ num_retries' = num_retries + 1
                     /\ IF num_retries' > max_retries
                          THEN pc' = "raised" /\ exc' = exc
                          ELSE pc' = "connect"]_vars
    /\ [][(pc = "connect" /\ pc' \in {"send", "sleep"})
            => reqFrom' = received_log_entries + 1]_vars
    /\ [](runFails > 0 /\ pc \in {"send", "recv"}
            => reqFrom = received_log_entries + 1)

\* after a message with a timestamp that is not ISO 8601 the generator has
\* waited and is connected again, with the from_entry_number of the connection
\* on which that message arrived, and has yielded none of its entries
WitC18 ==
    /\ srvBad < 0
    /\ received # <<>>
    /\ Unparsable(Last(received))
    /\ Last(received).status = "In progress"
    /\ pc = "recv"
    /\ runFails = 1
    /\ Len(yielded) = 1
    /\ reqFrom = received_log_entries + 1
    /\ received_log_entries = TotalEntries(yielded)

\* C19: closing the generator at a yield, or cancelling the task while the
\* generator awaits a connection, a message or the end of a backoff, ends the
\* generator there: the exception leaves it, no failure is counted, the retry
\* counter stays, and nothing follows, in particular no connection attempt.
ThmC19 ==
    /\ [][(exc' # exc /\ exc'.type \in {"CancelledError", "GeneratorExit"})
            => /\ pc' = IF exc'.type = "GeneratorExit" THEN "closed" ELSE "cancelled"
               /\ pc = "yielded" <=> exc'.type = "GeneratorExit"
               /\ runFails' = runFails
               /\ num_retries' = num_retries
               /\ reqFrom' = reqFrom
               /\ yielded' = yielded]_vars
    /\ [][pc \notin {"closed", "cancelled"}]_vars
    /\ [](pc \in {"closed", "cancelled"}
            <=> exc.type \in {"CancelledError", "GeneratorExit"})

\* the task was cancelled during the backoff that followed a failure, which
\* followed a yield
WitC19 ==
    /\ pc = "cancelled"
    /\ exc = CancelledError
    /\ runFails = 1
    /\ num_retries = 0
    /\ Len(yielded) >= 1
\* C17: at most one progress request of a Submission is under way at any time;
\* a reader that arrives during a refresh waits for it and makes no request,
\* and waiting readers are released when the refresh ends; no entry is in
\* the log twice.
ThmC17 ==
    /\ [](/\ inFlight <= 1
          /\ inFlight = 1 <=> ppc = "fetching"
          /\ waiting > 0 => ppc = "fetching"
          /\ \A i, j \in 1..Len(log) : i # j => log[i] # log[j])
    /\ [][/\ waiting' > waiting
              => /\ ppc = "fetching"
                 /\ netCalls' = netCalls
                 /\ inFlight' = inFlight
                 /\ log' = log
                 /\ next_expected_entry_number' = next_expected_entry_number
          /\ (netCalls' > netCalls /\ ppc = "fetching")
              => /\ consecutive_failures' > consecutive_failures
                 /\ inFlight' = 1]_vars

\* a second reader waits for the refresh that a first reader began after an
\* earlier refresh delivered an entry
WitC17 ==
    /\ waiting = 1
    /\ ppc = "fetching"
    /\ inFlight = 1
    /\ Len(log) >= 1
    /\ netCalls = callsAtRefresh + 1
\* the number of entries of the manifest that are named Proposal.xml,
\* Blocks.xml or Block.xml
NumRequired(f) ==
    Cardinality({i \in 1..Len(f.filenames) :
                    \/ f.filenames[i] = "Proposal.xml"
                    \/ f.filenames[i] = "Blocks.xml"
                    \/ f.filenames[i] = "Block.xml"})

\* C20: for a zip file, submit passes the manifest check exactly when one
\* entry of the manifest is named Proposal.xml, Blocks.xml or Block.xml (at
\* the top level, in this spelling): with no such entry it raises a ValueError
\* that names the three files, with two or more a ValueError that contains
\* 'exactly one of Proposal.xml, Blocks.xml or Block.xml', and with one it
\* raises neither and never posts after an error.
ThmC20 ==
    (spc \in {"checked", "posting", "raised", "returned"} /\ file.is_zip) =>
        /\ NumRequired(file) = 0
              => /\ spc = "raised"
                 /\ raised.type = "ValueError"
                 /\ raised.message = <<"The submitted zip file must contain a file ",
                                       "Proposal.xml, Blocks.xml or Block.xml", ".">>
        /\ NumRequired(file) >= 2
              => /\ spc = "raised"
                 /\ raised.type = "ValueError"
                 /\ \E i \in 1..Len(raised.message) :
                       raised.message[i] = "exactly one of Proposal.xml, Blocks.xml or Block.xml"
        /\ NumRequired(file) = 1
              => \A i \in 1..Len(raised.message) :
                    /\ raised.message[i] # "exactly one of Proposal.xml, Blocks.xml or Block.xml"
                    /\ raised.message[i] # "Proposal.xml, Blocks.xml or Block.xml"
        /\ spc = "raised" <=> raised # NoError
        /\ raised.type \in {"ValueError", "ParseError"} => posted = None

\* submit has raised for a zip file with Proposal.xml and Blocks.xml
WitC20 ==
    /\ spc = "raised"
    /\ file.is_zip
    /\ file.filenames = <<"Proposal.xml", "Blocks.xml">>
    /\ raised = SeveralRequiredFiles
    /\ posted = None
\* the only entry of the manifest that is named Proposal.xml, Blocks.xml or
\* Block.xml is named `name`
OnlyRequired(f, name) ==
    /\ f.is_zip
    /\ NumRequired(f) = 1
    /\ \E i \in 1..Len(f.filenames) : f.filenames[i] = name

\* part is one of the parts of the message of the exception raised
Names(part) == \E i \in 1..Len(raised.message) : raised.message[i] = part

\* C21: for a zip file whose manifest is Proposal.xml with a non-empty code
\* attribute c, submit raises a ValueError that names the proposal_code
\* argument and c when the argument is not c, without any request; when the
\* argument is c no check raises and the file is posted with that code.
ThmC21 ==
    (/\ spc \in {"checked", "posting", "raised", "returned"}
     /\ OnlyRequired(file, "Proposal.xml")
     /\ file.code \in ProposalCodes) =>
        /\ submit_proposal_code # file.code
              => /\ spc = "raised"
                 /\ raised.type = "ValueError"
                 /\ Names(IF submit_proposal_code = None THEN "None"
                          ELSE submit_proposal_code)
                 /\ Names(file.code)
                 /\ Names("The proposal code argument (")
                 /\ numPosts = 0
        /\ submit_proposal_code = file.code
              => /\ raised.type \notin {"ValueError", "ParseError"}
                 /\ spc = "checked" => ENABLED Post
                 /\ spc # "checked"
                       => /\ numPosts = 1
                          /\ posted = [proposal_code |-> file.code]

\* submit has raised for a Proposal.xml with code 2024-2-SCI-042 and the
\* argument 2024-2-SCI-043
WitC21 ==
    /\ spc = "raised"
    /\ OnlyRequired(file, "Proposal.xml")
    /\ file.code = "2024-2-SCI-042"
    /\ submit_proposal_code = "2024-2-SCI-043"
    /\ raised = ProposalCodeMismatch("2024-2-SCI-043", "2024-2-SCI-042")

\* C22: for a zip file whose manifest is Blocks.xml or Block.xml, submit raises
\* a ValueError saying 'proposal code is required' when the proposal_code
\* argument is None, without any request, and no check raises when a proposal
\* code is given.
ThmC22 ==
    (/\ spc \in {"checked", "posting", "raised", "returned"}
     /\ OnlyRequired(file, "Blocks.xml") \/ OnlyRequired(file, "Block.xml")) =>
        /\ submit_proposal_code = None
              => /\ spc = "raised"
                 /\ raised.type = "ValueError"
                 /\ Names("proposal code is required")
                 /\ numPosts = 0
        /\ submit_proposal_code # None
              => /\ raised.type \notin {"ValueError", "ParseError"}
                 /\ spc = "checked" => ENABLED Post
                 /\ spc # "checked" => numPosts = 1

\* submit has raised for a Block.xml submitted without a proposal code
WitC22 ==
    /\ spc = "raised"
    /\ OnlyRequired(file, "Block.xml")
    /\ submit_proposal_code = None
    /\ raised = ProposalCodeRequired

\* the file and the proposal code pass all checks of the content
Valid(f, argument) ==
    /\ f.is_zip
    /\ NumRequired(f) = 1
    /\ OnlyRequired(f, "Proposal.xml")
          => /\ f.code # Malformed
             /\ f.code \in ProposalCodes => argument = f.code
    /\ ~OnlyRequired(f, "Proposal.xml") => argument # None

\* C23: submit makes one POST request when the checks of the content pass and
\* none when they fail: a failed check raises before any request is made, and
\* nothing follows a raise.
ThmC23 ==
    /\ [](/\ numPosts <= 1
          /\ numPosts = 0 => posted = None
          /\ numPosts = 1 => Valid(file, submit_proposal_code)
          /\ (spc # "called" /\ ~Valid(file, submit_proposal_code))
                => /\ spc = "raised"
                   /\ raised.type \in {"ValueError", "ParseError"}
                   /\ numPosts = 0
          /\ (spc # "called" /\ Valid(file, submit_proposal_code))
                => raised.type \notin {"ValueError", "ParseError"}
          /\ spc = "returned" => numPosts = 1)
    /\ [][spc # "raised" /\ spc # "returned"]_vars

\* submit has raised for a file that is not a zip file, without a request
WitC23 ==
    /\ spc = "raised"
    /\ ~file.is_zip
    /\ raised = NotAZipFile
    /\ numPosts = 0
    /\ posted = None

\* C24 as stated: the object submit returns is bound to the identifier in the
\* server's response and holds an empty state: no log entries, status
\* InProgress, no proposal code, next_expected_entry_number = 1.
CexC24 ==
    spc = "returned" =>
        /\ handle.class = "Submission"
        /\ DOMAIN handle =
              {"class", "identifier", "status", "log", "proposal_code",
               "next_expected_entry_number"}
        /\ handle.identifier = identifier
        /\ handle.status = "SubmissionStatus.IN_PROGRESS"
        /\ handle.log = <<>>
        /\ handle.proposal_code = None
        /\ handle.next_expected_entry_number = 1

\* the names of the methods of the Session that make one request and return
\* the response
HelperNames == {"request", "get", "post", "put", "patch", "delete"}

\* the latest call is a call of request or of one of its helpers, and the
\* server has answered it
Answered == call.name \in HelperNames /\ call.response # NoResponse

\* C25: request, get, post, put, patch and delete return the response exactly
\* when its status code is below 400 and otherwise raise BadRequestError (400),
\* NotAuthenticatedError (401), ForbiddenError (403), NotFoundError (404),
\* ServerError (500) or a plain APIError (any other status), whose status_code
\* is the status code of the response; the constructors never raise ValueError.
ThmC25 ==
    Answered =>
        LET code == call.response.status_code
        IN /\ spos = "idle"
           /\ call.returned <=> code < 400
           /\ call.returned <=> call.raised = NoAPIError
           /\ code >= 400 =>
                /\ call.raised.status_code = code
                /\ call.raised.type # "ValueError"
                /\ code = 400 <=> call.raised.type = "BadRequestError"
                /\ code = 401 <=> call.raised.type = "NotAuthenticatedError"
                /\ code = 403 <=> call.raised.type = "ForbiddenError"
                /\ code = 404 <=> call.raised.type = "NotFoundError"
                /\ code = 500 <=> call.raised.type = "ServerError"
                /\ code \notin {400, 401, 403, 404, 500}
                     <=> call.raised.type = "APIError"

\* delete has raised a plain APIError with status code 418 for a response
\* with status 418
WitC25 ==
    /\ call.name = "delete"
    /\ call.response.status_code = 418
    /\ ~call.returned
    /\ call.raised.type = "APIError"
    /\ call.raised.status_code = 418

\* a response with an error status has been received by the latest call of
\* the Session or handed to check_for_http_errors
ErrorResponse ==
    /\ call.name \in HelperNames \cup {"login", "check_for_http_errors"}
    /\ call.response.status_code >= 400

\* C26 as stated: for every response with a status of 400 or more the error
\* raised by check_for_http_errors and by Session.request carries the status
\* code and the message member of the JSON body, else its error member, else
\* a default that depends on the status code.
CexC26 ==
    ErrorResponse =>
        LET body == call.response.body
        IN /\ call.raised.status_code = call.response.status_code
           /\ (body.json = "object" /\ body.message # Absent)
                => call.raised.message = body.message
           /\ (body.json = "object" /\ body.message = Absent
                 /\ body.error # Absent)
                => call.raised.message = body.error
           /\ (body.json # "object"
                 \/ (body.message = Absent /\ body.error = Absent))
                => call.raised.message
                     = DefaultStatusCodeError(call.response.status_code)

\* C26: for every response with a status of 400 or more the error raised
\* carries the status code; the message of check_for_http_errors is the
\* message member of the JSON object, else its error member, else the default
\* of the status code; the message of the error of the Session is the message
\* member of the JSON object, else the constant "API request error.".
ThmC26 ==
    ErrorResponse =>
        LET body == call.response.body
            code == call.response.status_code
        IN /\ call.raised.status_code = code
           /\ (body.json = "object" /\ body.message # Absent)
                => call.raised.message = body.message
           /\ (call.name = "check_for_http_errors" /\ body.json = "object"
                 /\ body.message = Absent /\ body.error # Absent)
                => call.raised.message = body.error
           /\ (call.name = "check_for_http_errors"
                 /\ (body.json # "object"
                       \/ (body.message = Absent /\ body.error = Absent)))
                => /\ call.raised.type = "HttpStatusError"
                   /\ code = 400 => call.raised.message
                        = "It seems there was a problem with your input."
                   /\ code = 403 => call.raised.message
                        = "You are not allowed to perform this action."
                   /\ code = 418 => call.raised.message
                        = "The request failed with a status code 418."
                   /\ call.raised.message
                        = DefaultStatusCodeError(code)
           /\ (call.name # "check_for_http_errors"
                 /\ (body.json # "object" \/ body.message = Absent))
                => call.raised.message = "API request error."

\* get has raised NotFoundError with the constant message for a response with
\* status 404 whose body has an error member and no message member
WitC26 ==
    /\ call.name = "get"
    /\ call.response.status_code = 404
    /\ call.response.body.json = "object"
    /\ call.response.body.message = Absent
    /\ call.response.body.error = "There is another error!"
    /\ call.raised.type = "NotFoundError"
    /\ call.raised.message = "API request error."

\* the endpoint starts with one slash and no more
SingleSlash(endpoint) ==
    /\ Len(endpoint) >= 1
    /\ SubSeq(endpoint, 1, 1) = "/"
    /\ Len(endpoint) >= 2 => SubSeq(endpoint, 2, 2) # "/"

\* C27: request, get, post, put, patch and delete raise ValueError and send no
\* HTTP request when the endpoint starts with http:// or https:// or does not
\* start with exactly one slash; otherwise they send the request to
\* base_url + endpoint.
ThmC27 ==
    call.name \in HelperNames =>
        /\ ~SingleSlash(call.argument)
             => /\ call.raised.type = "ValueError"
                /\ call.sent = NoRequest
                /\ call.response = NoResponse
                /\ spos = "idle"
        /\ SingleSlash(call.argument)
             => /\ call.sent # NoRequest
                /\ call.sent.url = base_url \o call.argument
                /\ call.sent.method \in Methods
                /\ call.name = "get" => call.sent.method = "GET"
                /\ call.name = "post" => call.sent.method = "POST"
                /\ call.name = "put" => call.sent.method = "PUT"
                /\ call.name = "patch" => call.sent.method = "PATCH"
                /\ call.name = "delete" => call.sent.method = "DELETE"
                /\ call.raised.type # "ValueError"

\* get has raised ValueError for the endpoint //status without a request
WitC27 ==
    /\ call.name = "get"
    /\ call.argument = "//status"
    /\ call.raised.type = "ValueError"
    /\ call.sent = NoRequest

\* the step ends a call of login without an exception
LoginSucceeds ==
    /\ spos = "awaiting"
    /\ spos' = "idle"
    /\ call'.name = "login"
    /\ call'.raised = NoAPIError

\* the step ends a call of login with an exception
LoginFails ==
    /\ spos = "awaiting"
    /\ spos' = "idle"
    /\ call'.name = "login"
    /\ call'.raised # NoAPIError

\* C28: logged_in is true exactly when the Authorization header is set; a
\* successful login sets the header to Bearer and the token of the response,
\* a failed login leaves it as it is, every request carries the header as it
\* is when the request is sent, logout removes the header, and logout while
\* not logged in changes nothing and does not raise; nothing else changes the
\* header.
ThmC28 ==
    /\ [](/\ LoggedIn <=> authorization # Absent
          /\ call.sent # NoRequest
               => call.sent.authorization = authorization
                    \/ (spos = "idle" /\ call.name = "login"
                          /\ call.raised = NoAPIError
                          /\ call.response # NoResponse))
    /\ [][/\ LoginSucceeds
               => /\ call'.response.body.token \in Tokens
                  /\ call'.response.body.token # None
                       => authorization'
                            = "Bearer " \o call'.response.body.token
                  /\ call'.response.body.token = None
                       => authorization' = "Bearer None"
          /\ LoginFails => authorization' = authorization
          /\ spos' = "awaiting"
               => /\ call'.sent.authorization = authorization
                  /\ authorization' = authorization
          /\ call'.name = "logout"
               => /\ authorization' = Absent
                  /\ call'.raised = NoAPIError
                  /\ call'.sent = NoRequest
                  /\ UNCHANGED <<spos, base_url>>
          /\ authorization' # authorization
               => LoginSucceeds \/ call'.name = "logout"]_vars

\* a request made after a login carries the token of that login
WitC28 ==
    /\ call.name = "get"
    /\ LoggedIn
    /\ authorization = "Bearer secret_token"
    /\ call.sent.authorization = "Bearer secret_token"
    /\ call.returned

\* C29 as stated: after set_base_url has returned, no access token is stored
\* in SessionHandler and the session sends no Authorization header.
CexC29 ==
    call.name = "set_base_url" =>
        /\ access_token = None
        /\ handler_authorization = Absent

\* C30: setting base_url to a value that ends with a slash raises ValueError
\* and leaves the base URL as it is; setting another value makes it the base
\* URL, and from then on every request goes to that base URL followed by the
\* endpoint.
ThmC30 ==
    /\ [](/\ ~EndsWith(base_url, "/")
          /\ call.sent # NoRequest => call.sent.url = base_url \o call.argument)
    /\ [][/\ (call'.name = "base_url" /\ EndsWith(call'.argument, "/"))
               => /\ call'.raised.type = "ValueError"
                  /\ base_url' = base_url
          /\ (call'.name = "base_url" /\ ~EndsWith(call'.argument, "/"))
               => /\ call'.raised = NoAPIError
                  /\ base_url' = call'.argument
          /\ base_url' # base_url => call'.name = "base_url"]_vars

\* after the base URL has been set to https://new.base.url, setting it to a
\* value with a trailing slash has raised and has not changed it
WitC30 ==
    /\ call.name = "base_url"
    /\ call.argument = "https://slashes.example.org/"
    /\ call.raised.type = "ValueError"
    /\ base_url = "https://new.base.url"

\* C31 as stated: a backoff wait of submission_progress begins only when an
\* attempt has failed and ends in the retry that follows it; there is none
\* before the initial attempt and none after a message; a failure that takes
\* the number of consecutive failures past max_retries is passed on without a
\* wait.
CexC31 ==
    /\ [](pc = "sleep" =>
            /\ runFails >= 1
            /\ exc # NoExc
            /\ LoopCondition(num_retries + 1, max_retries))
    /\ [][/\ pc' = "sleep"
               => /\ pc \in {"connect", "send", "recv"}
                  /\ runFails' = runFails + 1
          /\ (pc = "sleep" /\ pc' # "cancelled") => pc' = "connect"
          /\ pc' = "raised" => pc \in {"connect", "send", "recv"}]_vars

\* C32: when the checks pass, the POST request of submit holds the whole file,
\* from its first byte, in the file field proposal.zip, whatever the read
\* position was before and during the checks, and the form field
\* proposal_code exactly when the argument is not None, for a Path, a str
\* and an open file object.
ThmC32 ==
    /\ spc = "checked" => offset = 0
    /\ numPosts = 1 =>
          /\ uploaded.field = "proposal.zip"
          /\ uploaded.content = Content
          /\ Len(uploaded.content) = FileLength
          /\ posted.proposal_code = Absent <=> submit_proposal_code = None
          /\ submit_proposal_code # None
                => posted.proposal_code = submit_proposal_code
    /\ numPosts = 0 => uploaded = NoUpload

\* submit has returned for an open file object whose Proposal.xml was read
\* for its code
WitC32 ==
    /\ spc = "returned"
    /\ file_kind = "BinaryIO"
    /\ OnlyRequired(file, "Proposal.xml")
    /\ file.code = "2024-2-SCI-042"
    /\ posted = [proposal_code |-> "2024-2-SCI-042"]
    /\ uploaded = Upload(0)

\* C33: max_retries bounds the consecutive failures of submission_progress and
\* not their total: num_retries counts the failures since the last message
\* only, the generator raises only when these exceed max_retries, and for
\* max_retries >= 1 a failure that follows a message is always retried, so a
\* server that sends a message between failures is reconnected to without end.
ThmC33 ==
    /\ [](/\ pc \in {"connect", "send", "recv"} => num_retries = runFails
          /\ pc = "sleep" => num_retries + 1 = runFails
          /\ pc = "raised" => runFails = max_retries + 1)
    /\ [][/\ (pc = "yielded" /\ pc' = "recv") => num_retries' = 0
          /\ (pc = "sleep" /\ runFails = 1 /\ max_retries >= 1)
               => /\ pc' \in {"connect", "cancelled"}
                  /\ pc' = "connect" => num_retries' = 1
          /\ (pc = "sleep" /\ pc' = "raised") => runFails > max_retries]_vars

\* with max_retries = 1 the generator reconnects after its second failure,
\* because a message was yielded between the two failures
WitC33 ==
    /\ max_retries = 1
    /\ prevRunFails = 1
    /\ runFails = 1
    /\ num_retries = 1
    /\ Len(yielded) >= 1
    /\ pc = "connect"

\* C34: with a negative max_retries submission_progress ends at once without
\* a connection attempt, without an item and without an exception; with
\* max_retries >= 0 its first step always is the initial connection attempt.
ThmC34 ==
    /\ [](/\ max_retries < 0
               => /\ pc \in {"start", "done"}
                  /\ reqFrom = 0
                  /\ received = <<>>
                  /\ yielded = <<>>
                  /\ exc = NoExc
                  /\ runFails = 0
          /\ (max_retries >= 0 /\ pc \notin {"start", "connect", "cancelled"})
               => reqFrom >= 1)
    /\ [][pc = "start"
            => /\ max_retries < 0 => pc' = "done"
               /\ max_retries >= 0 => pc' = "connect"]_vars

\* the generator called with max_retries = -1 has ended without connecting
WitC34 ==
    /\ max_retries = -1
    /\ pc = "done"
    /\ reqFrom = 0
    /\ yielded = <<>>
    /\ exc = NoExc

\* C35: the comparison of the proposal codes is made without a proposal_code
\* argument as well: for a Proposal.xml with a non-empty code attribute and
\* the argument None submit raises the mismatch error, naming None and the
\* code; for a Proposal.xml whose code attribute is absent or empty no check
\* raises, whatever the argument is.
ThmC35 ==
    (spc # "called" /\ OnlyRequired(file, "Proposal.xml")) =>
        /\ (file.code \in ProposalCodes /\ submit_proposal_code = None)
              => /\ spc = "raised"
                 /\ raised = ProposalCodeMismatch(None, file.code)
                 /\ raised.message[2] = "None"
                 /\ numPosts = 0
        /\ file.code \in {Absent, ""}
              => /\ raised.type \notin {"ValueError", "ParseError"}
                 /\ spc = "checked" => ENABLED Post
                 /\ spc # "checked" => numPosts = 1

\* submit has raised for a Proposal.xml with the code 2024-2-SCI-042
\* submitted without a proposal code
WitC35 ==
    /\ spc = "raised"
    /\ OnlyRequired(file, "Proposal.xml")
    /\ file.code = "2024-2-SCI-042"
    /\ submit_proposal_code = None
    /\ raised.type = "ValueError"
    /\ Names("None")

\* the manifest names Blocks.xml or Block.xml
HasBlocks(f) ==
    \E i \in 1..Len(f.filenames) : f.filenames[i] \in {"Blocks.xml", "Block.xml"}

\* C36: the checks of submit are made in the order: zip file, at least one
\* required file, at most one required file, proposal code of a block
\* submission, consistency of the proposal code; the first check that fails
\* gives the error, whatever the later checks would say.
ThmC36 ==
    spc # "called" =>
        /\ ~file.is_zip => raised = NotAZipFile
        /\ (file.is_zip /\ NumRequired(file) = 0) => raised = NoRequiredFile
        /\ (file.is_zip /\ NumRequired(file) > 1)
              => raised = SeveralRequiredFiles
        /\ (file.is_zip /\ NumRequired(file) = 1 /\ HasBlocks(file)
              /\ submit_proposal_code = None)
              => raised = ProposalCodeRequired
        /\ (file.is_zip /\ NumRequired(file) = 1 /\ ~HasBlocks(file)
              /\ file.code \in ProposalCodes
              /\ submit_proposal_code # file.code)
              => raised = ProposalCodeMismatch(submit_proposal_code, file.code)
        /\ raised.type = "ValueError" => (spc = "raised" /\ numPosts = 0)

\* a zip file with Blocks.xml and Block.xml submitted without a proposal code
\* has raised the error about exactly one required file
WitC36 ==
    /\ spc = "raised"
    /\ file.filenames = <<"Blocks.xml", "Block.xml">>
    /\ submit_proposal_code = None
    /\ raised = SeveralRequiredFiles
    /\ Names("exactly one of Proposal.xml, Blocks.xml or Block.xml")

\* the latest call is a login that has raised
LoginHasFailed ==
    /\ spos = "idle"
    /\ call.name = "login"
    /\ call.raised # NoAPIError

\* C37: a login that fails, because the response to the token request has an
\* error status or no token that can be read (or because no response
\* arrives), leaves the Authorization header as it was: no header if there
\* was none, the header of the previous login otherwise.
ThmC37 ==
    /\ [](/\ LoginHasFailed => authorization = call.sent.authorization
          /\ (spos = "idle" /\ call.name = "login"
                /\ call.response # NoResponse)
               => (call.raised # NoAPIError
                     <=> \/ call.response.status_code >= 400
                         \/ call.response.body.json # "object"
                         \/ call.response.body.token = Absent))
    /\ [][LoginFails
            => /\ authorization' = authorization
               /\ LoggedIn' <=> LoggedIn
               /\ base_url' = base_url]_vars

\* a session logged in with secret_token has failed to log in again, the
\* response having no token, and still has the header of secret_token
WitC37 ==
    /\ LoginHasFailed
    /\ call.response.status_code = 200
    /\ call.raised.type = "APIError"
    /\ call.raised.message = "The server response cannot be parsed."
    /\ authorization = "Bearer secret_token"
    /\ call.sent.authorization = "Bearer secret_token"

\* C38: after any calls of set_access_token and delete_access_token the
\* access token of SessionHandler is None exactly when its session has no
\* Authorization header, and the header is Bearer and the token otherwise;
\* delete_access_token raises when no header is set and returns otherwise,
\* and in both cases leaves neither a token nor a header.
ThmC38 ==
    /\ [](/\ access_token = None <=> handler_authorization = Absent
          /\ access_token # None
               => handler_authorization = "Bearer " \o access_token)
    /\ [][/\ call'.name = "delete_access_token"
               => /\ access_token' = None
                  /\ handler_authorization' = Absent
                  /\ handler_authorization = Absent
                       <=> call'.raised.type = "KeyError"
                  /\ handler_authorization # Absent
                       <=> call'.raised = NoAPIError
          /\ call'.name = "set_access_token"
               => /\ access_token' = call'.argument
                  /\ call'.raised = NoAPIError]_vars

\* delete_access_token has raised KeyError, no header being set, and has left
\* neither a token nor a header
WitC38 ==
    /\ call.name = "delete_access_token"
    /\ call.raised.type = "KeyError"
    /\ access_token = None
    /\ handler_authorization = Absent
====
